---------------------------- MODULE Spec2Model ----------------------------
(***************************************************************************)
(* Model of the sol-ink sunrise animation (JackSwitzer/sol).               *)
(*                                                                         *)
(* Numbers that are fractions in the TypeScript source are kept exact as   *)
(* integer numerators over a fixed denominator:                            *)
(*   visibility      numerator over RING_FADE_DURATION  (10 means 1.0)     *)
(*   pulse position  numerator over PULSE_SPEED         (a pulse age)      *)
(*   pulse intensity numerator over PULSE_DEN = 15      (15 means 1.0)     *)
(*   eased progress  numerator over EASE_DEN = 60^3     (216000 means 1.0) *)
(*   progress        numerator over PROGRESS_DEN = 100  (100 means 1.0)    *)
(* Strings are sequences of UTF-16 code units; a code unit outside ASCII   *)
(* is written "uXXXX".                                                     *)
(***************************************************************************)
EXTENDS Integers, Sequences, FiniteSets, TLC

VARIABLES
    frame,          \* frame index being evaluated / the component's frame state
    ringIndex,      \* ring index handed to the rise-engine functions
    visibility,     \* last result of getRingVisibility(ringIndex, frame)
    pulseIntensity, \* last result of getPulseIntensity(ringIndex, frame)
    ringLevel,      \* the finalLevel getRingChar computed (0: it returned ' ')
    ringChar,       \* last result of getRingChar(ringIndex, frame)
    sunLevels,      \* levels getSunPoints(frame, ..) gives the points of ringIndex
    progress,       \* progress handed to getColors, numerator over PROGRESS_DEN
    theme,          \* theme key handed to getColors
    colors,         \* last result of getColors(progress, theme)
    width,          \* width prop of the Animation component / --width
    height,         \* height prop of the Animation component / --height
    currentTime,    \* the component's currentTime state, "HH:MM"
    morphed,        \* getMorphedPoints(..) of the component's last render (<<>> in the rise phase)
    morphCells,     \* cells the morph branch of the last render wrote: position -> cell
    toolMorphed,    \* the particles of buildMorphFrame for the same frame, size and time
    toolCells,      \* cells buildMorphFrame wrote for them: position -> char
    grid,           \* the frame buffer of the component's last render: rows of cells
    phase,          \* the branch that render ran: "rise" or "morph"
    cellWrites,     \* the cell writes that render came to, in order: point and cell
    toolFrame,      \* the frame handed to getFrameMetadata
    now,            \* the reading of the wall clock, "HH:MM"
    toolArt,        \* art of the last getFrameMetadata(toolFrame, width, height)
    toolPhase,      \* phase of the last getFrameMetadata(toolFrame, width, height)
    fontText,       \* the string handed to textToPointsBold and timeToSegmentPoints
    boldPoints,     \* result of textToPointsBold(fontText)
    segmentPoints,  \* result of timeToSegmentPoints(fontText)
    component,      \* which Animation component is mounted: "current" or "legacy"
    mounted,        \* the component is mounted
    autoReturn,     \* the autoReturn prop
    completedRef,   \* completedRef.current
    escapeCount,    \* the escapeCount state
    escapeTimerRef, \* a timeout of escapeTimerRef.current is pending
    autoReturnTimerRef, \* the auto-return timeout is pending
    closure,        \* what the handler of the last commit sees: escapeCount, frame >= TOTAL_FRAMES
    stale,          \* the states set since the last commit
    keyCount,       \* key presses delivered to useInput so far
    completions,    \* the arguments of the calls of onComplete, in order
    lastKey,        \* the key of the last press: "none", "q", "escape" or "other"
    pendingAlarmRef, \* pendingAlarmRef.current of App
    alarmStarts,    \* the number of calls of startAlarm
    selectedField,  \* the selectedField state of App
    settings,       \* the settings state of App
    startTime,      \* the sunrise start time shown by the last render
    menuKey,        \* the arrow key of the last press in the menu, "none" before
    prevField       \* selectedField when that key was pressed

riseVars == <<frame, ringIndex, visibility, pulseIntensity, ringLevel, ringChar, sunLevels>>

paletteVars == <<progress, theme, colors>>

morphVars == <<width, height, currentTime, morphed, morphCells, toolMorphed, toolCells>>

compVars == <<grid, phase, cellWrites>>

toolVars == <<toolFrame, now, toolArt, toolPhase>>

fontVars == <<fontText, boldPoints, segmentPoints>>

inputVars == <<component, mounted, autoReturn, completedRef, escapeCount, escapeTimerRef, autoReturnTimerRef, closure, stale, keyCount, completions,
               lastKey, pendingAlarmRef, alarmStarts>>

menuVars == <<selectedField, settings, startTime, menuKey, prevField>>

vars == <<riseVars, paletteVars, morphVars, compVars, toolVars, fontVars, inputVars, menuVars>>

----------------------------------------------------------------------------
(* Bounds of the model *)

MaxFrame == 200
MaxRingIndex == 12
MaxSkip == 20
MaxOvershoot == 50      \* progress ranges over -0.50 .. 1.50
MaxUnder == 20          \* frames handed to the offline renderer start at -MaxUnder

----------------------------------------------------------------------------
(* animation-core.ts: constants *)

TOTAL_FRAMES == 180
RISE_FRAMES == 120
MORPH_START == 120
MORPH_FRAMES == 60
PULSE_PERIOD == 18
PULSE_SPEED == 5
MAX_RING == 10
RING_BIRTH_FRAMES_swapped == <<0, 6, 14, 24, 36, 50, 64, 90, 78, 102, 112>>
RING_BIRTH_FRAMES == <<0, 6, 14, 24, 36, 50, 64, 78, 90, 102, 112>>
RING_FADE_DURATION == 10

\* 1.5 ring units, the half-width of a pulse, counted in units of 1/PULSE_SPEED
\* is 1.5 * PULSE_SPEED = PULSE_DEN / 2; intensities are numerators over PULSE_DEN
PULSE_DEN == 3 * PULSE_SPEED

\* CHARS = [' ', '..', ...]: the five brightness glyphs as the file stores them
CHARS == << <<" ">>,
            <<"u252C", "u2556">>,
            <<"u0442", "u0410", "u0432">>,
            <<"u0442", "u0427", "u041B">>,
            <<"u0442", "u0427", "u041F">> >>

RING_CARDINAL(d) == << <<0, -d>>, <<0, d>>, <<-d, 0>>, <<d, 0>> >>
\* the diagonal offsets shortened to 0.7 d, towards a circle
RING_DIAGONAL_round(d) ==
    LET k == (7 * d + 5) \div 10
    IN  << <<-k, -k>>, <<-k, k>>, <<k, -k>>, <<k, k>> >>

RING_DIAGONAL(d) == << <<-d, -d>>, <<-d, d>>, <<d, -d>>, <<d, d>> >>

RingDef(d, lvl, ray) ==
    [distance |-> d,
     points |-> IF d = 0 THEN << <<0, 0>> >> ELSE RING_CARDINAL(d) \o RING_DIAGONAL(d),
     baseLevel |-> lvl,
     isRay |-> ray]

RING_DEFS ==
    << RingDef(0, 4, FALSE), RingDef(1, 4, FALSE), RingDef(2, 4, FALSE),
       RingDef(3, 3, FALSE), RingDef(4, 3, FALSE), RingDef(5, 2, FALSE),
       RingDef(6, 2, FALSE), RingDef(7, 1, TRUE), RingDef(8, 1, TRUE),
       RingDef(9, 1, TRUE), RingDef(10, 1, TRUE) >>

----------------------------------------------------------------------------
(* Arithmetic helpers *)

Min(a, b) == IF a <= b THEN a ELSE b
Max(a, b) == IF a >= b THEN a ELSE b
Abs(a) == IF a >= 0 THEN a ELSE -a

\* Math.round(n / d) for d > 0: the nearest integer, a half rounds up
MathRound(n, d) == (2 * n + d) \div (2 * d)

\* Math.floor(n / d) for d > 0
MathFloor(n, d) == n \div d

----------------------------------------------------------------------------
(* animation-core.ts: rise engine *)

\* a fade that wraps around instead of saturating
getRingVisibility_wrap(ring, f) ==
    IF ring >= Len(RING_BIRTH_FRAMES) THEN 0
    ELSE LET birthFrame == RING_BIRTH_FRAMES[ring + 1] IN
         IF f < birthFrame THEN 0
         ELSE (f - birthFrame) % (RING_FADE_DURATION + 1)

\* a fade that starts one frame late
getRingVisibility_late(ring, f) ==
    IF ring >= Len(RING_BIRTH_FRAMES) THEN 0
    ELSE LET birthFrame == RING_BIRTH_FRAMES[ring + 1] IN
         IF f <= birthFrame THEN 0
         ELSE Min(RING_FADE_DURATION, f - birthFrame - 1)

\* numerator of the visibility over RING_FADE_DURATION
getRingVisibility(ring, f) ==
    IF ring >= Len(RING_BIRTH_FRAMES) THEN 0
    ELSE LET birthFrame == RING_BIRTH_FRAMES[ring + 1] IN
         IF f < birthFrame THEN 0
         ELSE Min(RING_FADE_DURATION, f - birthFrame)

\* a pulse dropped as soon as its front reaches MAX_RING + 1 (< for <=)
RECURSIVE PulsePositions_strict(_, _)
PulsePositions_strict(pulseStart, f) ==
    IF pulseStart > f THEN <<>>
    ELSE LET pulseAge == f - pulseStart IN
         (IF pulseAge < PULSE_SPEED * (MAX_RING + 1) THEN <<pulseAge>> ELSE <<>>)
            \o PulsePositions_strict(pulseStart + PULSE_PERIOD, f)

\* pulses emitted one frame further apart each time
RECURSIVE PulsePositions_drift(_, _)
PulsePositions_drift(pulseStart, f) ==
    IF pulseStart > f THEN <<>>
    ELSE LET pulseAge == f - pulseStart IN
         (IF pulseAge <= PULSE_SPEED * (MAX_RING + 1) THEN <<pulseAge>> ELSE <<>>)
            \o PulsePositions_drift(pulseStart + PULSE_PERIOD + 1, f)

\* the first loop of getPulseIntensity: the fronts (pulseAge / PULSE_SPEED) of
\* the pulses started at pulseStart, pulseStart + PULSE_PERIOD, ... <= f,
\* each kept as its numerator pulseAge
RECURSIVE PulsePositions(_, _)
PulsePositions(pulseStart, f) ==
    IF pulseStart > f THEN <<>>
    ELSE LET pulseAge == f - pulseStart IN
         (IF pulseAge <= PULSE_SPEED * (MAX_RING + 1) THEN <<pulseAge>> ELSE <<>>)
            \o PulsePositions(pulseStart + PULSE_PERIOD, f)

\* the second loop of getPulseIntensity: the running maximum over positions k..
RECURSIVE PulseMax(_, _, _, _)
PulseMax(positions, ring, k, maxIntensity) ==
    IF k > Len(positions) THEN maxIntensity
    ELSE LET distance == Abs(PULSE_SPEED * ring - positions[k]) IN  \* over PULSE_SPEED
         PulseMax(positions, ring, k + 1,
                  IF 2 * distance < PULSE_DEN
                  THEN Max(maxIntensity, PULSE_DEN - 2 * distance)
                  ELSE maxIntensity)

\* numerator of the pulse intensity over PULSE_DEN
getPulseIntensity(ring, f) == PulseMax(PulsePositions(0, f), ring, 1, 0)

\* the lower clamp bound taken as 0
FinalLevel_clamp0(baseLevel, pulse, vis) ==
    LET pulseBoost == MathRound(2 * pulse, PULSE_DEN)
        fadeReduction == MathRound(2 * (RING_FADE_DURATION - vis), RING_FADE_DURATION)
    IN  Max(0, Min(4, baseLevel + pulseBoost - fadeReduction))

\* Math.floor in place of Math.round
FinalLevel_floor(baseLevel, pulse, vis) ==
    LET pulseBoost == MathFloor(2 * pulse, PULSE_DEN)
        fadeReduction == MathFloor(2 * (RING_FADE_DURATION - vis), RING_FADE_DURATION)
    IN  Max(1, Min(4, baseLevel + pulseBoost - fadeReduction))

\* baseLevel + pulseBoost - fadeReduction clamped to 1..4 (both call sites)
FinalLevel(baseLevel, pulse, vis) ==
    LET pulseBoost == MathRound(2 * pulse, PULSE_DEN)
        fadeReduction == MathRound(2 * (RING_FADE_DURATION - vis), RING_FADE_DURATION)
    IN  Max(1, Min(4, baseLevel + pulseBoost - fadeReduction))

\* the level getRingChar picks; 0 stands for the early return of ' '
RingLevel(ring, f) ==
    LET vis == getRingVisibility(ring, f) IN
    IF vis = 0 THEN 0
    ELSE LET baseLevel == IF ring + 1 \in DOMAIN RING_DEFS
                          THEN RING_DEFS[ring + 1].baseLevel ELSE 1
         IN  FinalLevel(baseLevel, getPulseIntensity(ring, f), vis)

\* CHARS[finalLevel]; an index outside the array reads as undefined
getRingChar(ring, f) ==
    LET finalLevel == RingLevel(ring, f) IN
    IF finalLevel + 1 \in DOMAIN CHARS THEN CHARS[finalLevel + 1] ELSE <<"undefined">>

----------------------------------------------------------------------------
(* components/Animation.tsx: getSunPoints *)

RECURSIVE SunPointsFrom(_, _, _, _)
SunPointsFrom(ringIdx, f, centerRow, centerCol) ==
    IF ringIdx > MAX_RING THEN <<>>
    ELSE LET vis == getRingVisibility(ringIdx, Min(f, RISE_FRAMES))
             level == FinalLevel(RING_DEFS[ringIdx + 1].baseLevel,
                                 getPulseIntensity(ringIdx, f), vis)
             pts == RING_DEFS[ringIdx + 1].points
             here == IF vis = 0 THEN <<>>
                     ELSE [k \in 1..Len(pts) |->
                             [point |-> <<centerRow + pts[k][1], centerCol + pts[k][2]>>,
                              level |-> level]]
         IN  here \o SunPointsFrom(ringIdx + 1, f, centerRow, centerCol)

getSunPoints(f, centerRow, centerCol) == SunPointsFrom(0, f, centerRow, centerCol)

\* the levels that getSunPoints(f, 0, 0) gives to the points of one ring
SunLevelsOfRing(ring, f) ==
    IF ring + 1 \notin DOMAIN RING_DEFS THEN {}
    ELSE LET sp == getSunPoints(f, 0, 0)
             pts == RING_DEFS[ring + 1].points
         IN  {sp[i].level : i \in {j \in 1..Len(sp) :
                                     \E k \in 1..Len(pts) : sp[j].point = pts[k]}}

----------------------------------------------------------------------------
(* animation-core.ts: themes and keyframe tables; t is in hundredths *)

PROGRESS_DEN == 100

THEME_ORDER == <<"blood_red", "forest_green", "royal_blue", "royal_purple", "claude_orange">>

PALETTE_BLOOD_RED ==
    << [t |-> 0, sky |-> <<"#", "0", "2", "0", "1", "0", "1">>, core |-> <<"#", "1", "8", "0", "3", "0", "3">>, inner |-> <<"#", "1", "0", "0", "2", "0", "2">>, outer |-> <<"#", "0", "8", "0", "1", "0", "1">>],
       [t |-> 10, sky |-> <<"#", "0", "2", "0", "1", "0", "1">>, core |-> <<"#", "1", "a", "0", "4", "0", "4">>, inner |-> <<"#", "1", "2", "0", "3", "0", "3">>, outer |-> <<"#", "0", "a", "0", "2", "0", "2">>],
       [t |-> 15, sky |-> <<"#", "0", "3", "0", "2", "0", "1">>, core |-> <<"#", "2", "a", "0", "5", "0", "5">>, inner |-> <<"#", "1", "a", "0", "4", "0", "4">>, outer |-> <<"#", "0", "f", "0", "3", "0", "3">>],
       [t |-> 22, sky |-> <<"#", "0", "4", "0", "3", "0", "2">>, core |-> <<"#", "3", "d", "0", "6", "0", "6">>, inner |-> <<"#", "2", "8", "0", "5", "0", "5">>, outer |-> <<"#", "1", "6", "0", "3", "0", "3">>],
       [t |-> 30, sky |-> <<"#", "0", "5", "0", "4", "0", "3">>, core |-> <<"#", "5", "5", "0", "8", "0", "8">>, inner |-> <<"#", "3", "8", "0", "6", "0", "6">>, outer |-> <<"#", "1", "e", "0", "4", "0", "4">>],
       [t |-> 38, sky |-> <<"#", "0", "6", "0", "5", "0", "4">>, core |-> <<"#", "7", "0", "0", "a", "0", "8">>, inner |-> <<"#", "4", "a", "0", "8", "0", "8">>, outer |-> <<"#", "2", "8", "0", "5", "0", "5">>],
       [t |-> 45, sky |-> <<"#", "0", "8", "0", "6", "0", "5">>, core |-> <<"#", "8", "a", "1", "0", "0", "8">>, inner |-> <<"#", "5", "e", "0", "a", "0", "8">>, outer |-> <<"#", "3", "2", "0", "6", "0", "6">>],
       [t |-> 50, sky |-> <<"#", "0", "a", "0", "7", "0", "6">>, core |-> <<"#", "a", "8", "1", "8", "0", "8">>, inner |-> <<"#", "7", "2", "1", "0", "0", "a">>, outer |-> <<"#", "3", "e", "0", "8", "0", "8">>],
       [t |-> 55, sky |-> <<"#", "0", "c", "0", "8", "0", "7">>, core |-> <<"#", "c", "0", "2", "8", "0", "8">>, inner |-> <<"#", "8", "8", "1", "8", "0", "c">>, outer |-> <<"#", "4", "a", "0", "a", "0", "a">>],
       [t |-> 62, sky |-> <<"#", "0", "e", "0", "a", "0", "8">>, core |-> <<"#", "d", "8", "3", "8", "1", "0">>, inner |-> <<"#", "a", "0", "2", "4", "1", "0">>, outer |-> <<"#", "5", "a", "1", "0", "1", "0">>],
       [t |-> 70, sky |-> <<"#", "1", "0", "0", "c", "0", "9">>, core |-> <<"#", "e", "8", "4", "c", "1", "8">>, inner |-> <<"#", "b", "8", "3", "2", "1", "4">>, outer |-> <<"#", "6", "c", "1", "4", "1", "4">>],
       [t |-> 78, sky |-> <<"#", "1", "4", "0", "e", "0", "a">>, core |-> <<"#", "f", "5", "6", "0", "2", "0">>, inner |-> <<"#", "c", "c", "4", "2", "1", "8">>, outer |-> <<"#", "8", "0", "1", "8", "1", "8">>],
       [t |-> 85, sky |-> <<"#", "1", "8", "1", "0", "0", "b">>, core |-> <<"#", "f", "f", "7", "4", "2", "8">>, inner |-> <<"#", "d", "e", "5", "2", "1", "c">>, outer |-> <<"#", "9", "4", "2", "0", "2", "0">>],
       [t |-> 90, sky |-> <<"#", "1", "c", "1", "2", "0", "c">>, core |-> <<"#", "f", "f", "9", "0", "4", "0">>, inner |-> <<"#", "e", "e", "6", "8", "2", "4">>, outer |-> <<"#", "a", "a", "2", "8", "2", "8">>],
       [t |-> 95, sky |-> <<"#", "2", "0", "1", "4", "0", "d">>, core |-> <<"#", "f", "f", "b", "0", "6", "0">>, inner |-> <<"#", "f", "c", "8", "0", "3", "0">>, outer |-> <<"#", "c", "0", "3", "0", "3", "0">>],
       [t |-> 100, sky |-> <<"#", "2", "4", "1", "6", "0", "e">>, core |-> <<"#", "f", "f", "d", "0", "8", "0">>, inner |-> <<"#", "f", "f", "a", "0", "4", "0">>, outer |-> <<"#", "d", "8", "4", "0", "4", "0">>] >>

GLOW_BLOOD_RED ==
    << [t |-> 0, glow |-> <<"#", "2", "a", "0", "6", "0", "6">>],
       [t |-> 10, glow |-> <<"#", "3", "a", "0", "8", "0", "8">>],
       [t |-> 50, glow |-> <<"#", "a", "a", "2", "0", "1", "0">>],
       [t |-> 85, glow |-> <<"#", "f", "f", "6", "0", "3", "0">>],
       [t |-> 100, glow |-> <<"#", "f", "f", "e", "0", "a", "0">>] >>

PALETTE_FOREST_GREEN ==
    << [t |-> 0, sky |-> <<"#", "0", "1", "0", "2", "0", "1">>, core |-> <<"#", "0", "3", "1", "8", "0", "3">>, inner |-> <<"#", "0", "2", "1", "0", "0", "2">>, outer |-> <<"#", "0", "1", "0", "8", "0", "1">>],
       [t |-> 10, sky |-> <<"#", "0", "1", "0", "2", "0", "1">>, core |-> <<"#", "0", "4", "1", "a", "0", "4">>, inner |-> <<"#", "0", "3", "1", "2", "0", "3">>, outer |-> <<"#", "0", "2", "0", "a", "0", "2">>],
       [t |-> 15, sky |-> <<"#", "0", "1", "0", "3", "0", "2">>, core |-> <<"#", "0", "5", "2", "a", "0", "5">>, inner |-> <<"#", "0", "4", "1", "a", "0", "4">>, outer |-> <<"#", "0", "3", "0", "f", "0", "3">>],
       [t |-> 22, sky |-> <<"#", "0", "2", "0", "4", "0", "3">>, core |-> <<"#", "0", "6", "3", "d", "0", "6">>, inner |-> <<"#", "0", "5", "2", "8", "0", "5">>, outer |-> <<"#", "0", "3", "1", "6", "0", "3">>],
       [t |-> 30, sky |-> <<"#", "0", "3", "0", "5", "0", "4">>, core |-> <<"#", "0", "8", "5", "5", "0", "8">>, inner |-> <<"#", "0", "6", "3", "8", "0", "6">>, outer |-> <<"#", "0", "4", "1", "e", "0", "4">>],
       [t |-> 38, sky |-> <<"#", "0", "4", "0", "6", "0", "5">>, core |-> <<"#", "0", "a", "7", "0", "0", "8">>, inner |-> <<"#", "0", "8", "4", "a", "0", "8">>, outer |-> <<"#", "0", "5", "2", "8", "0", "5">>],
       [t |-> 45, sky |-> <<"#", "0", "5", "0", "8", "0", "6">>, core |-> <<"#", "1", "0", "8", "a", "1", "0">>, inner |-> <<"#", "0", "a", "5", "e", "0", "8">>, outer |-> <<"#", "0", "6", "3", "2", "0", "6">>],
       [t |-> 50, sky |-> <<"#", "0", "6", "0", "a", "0", "7">>, core |-> <<"#", "1", "8", "a", "8", "1", "8">>, inner |-> <<"#", "1", "0", "7", "2", "1", "0">>, outer |-> <<"#", "0", "8", "3", "e", "0", "8">>],
       [t |-> 55, sky |-> <<"#", "0", "7", "0", "c", "0", "8">>, core |-> <<"#", "2", "8", "c", "0", "2", "8">>, inner |-> <<"#", "1", "8", "8", "8", "1", "8">>, outer |-> <<"#", "0", "a", "4", "a", "0", "a">>],
       [t |-> 62, sky |-> <<"#", "0", "8", "0", "e", "0", "a">>, core |-> <<"#", "3", "8", "d", "8", "3", "8">>, inner |-> <<"#", "2", "4", "a", "0", "2", "0">>, outer |-> <<"#", "1", "0", "5", "a", "1", "0">>],
       [t |-> 70, sky |-> <<"#", "0", "9", "1", "0", "0", "c">>, core |-> <<"#", "4", "8", "e", "8", "4", "8">>, inner |-> <<"#", "3", "2", "b", "8", "3", "0">>, outer |-> <<"#", "1", "4", "6", "c", "1", "4">>],
       [t |-> 78, sky |-> <<"#", "0", "a", "1", "4", "0", "e">>, core |-> <<"#", "6", "0", "f", "5", "6", "0">>, inner |-> <<"#", "4", "2", "c", "c", "4", "0">>, outer |-> <<"#", "1", "8", "8", "0", "1", "8">>],
       [t |-> 85, sky |-> <<"#", "0", "b", "1", "8", "1", "0">>, core |-> <<"#", "7", "8", "f", "f", "7", "8">>, inner |-> <<"#", "5", "2", "d", "e", "5", "0">>, outer |-> <<"#", "2", "0", "9", "4", "2", "0">>],
       [t |-> 90, sky |-> <<"#", "0", "c", "1", "c", "1", "2">>, core |-> <<"#", "9", "0", "f", "f", "9", "0">>, inner |-> <<"#", "6", "8", "e", "e", "6", "8">>, outer |-> <<"#", "2", "8", "a", "a", "2", "8">>],
       [t |-> 95, sky |-> <<"#", "0", "d", "2", "0", "1", "4">>, core |-> <<"#", "b", "0", "f", "f", "b", "0">>, inner |-> <<"#", "8", "0", "f", "c", "8", "0">>, outer |-> <<"#", "3", "0", "c", "0", "3", "0">>],
       [t |-> 100, sky |-> <<"#", "0", "e", "2", "4", "1", "6">>, core |-> <<"#", "d", "0", "f", "f", "d", "0">>, inner |-> <<"#", "a", "0", "f", "f", "a", "0">>, outer |-> <<"#", "4", "0", "d", "8", "4", "0">>] >>

GLOW_FOREST_GREEN ==
    << [t |-> 0, glow |-> <<"#", "0", "6", "2", "a", "0", "6">>],
       [t |-> 10, glow |-> <<"#", "0", "8", "3", "a", "0", "8">>],
       [t |-> 50, glow |-> <<"#", "2", "0", "a", "a", "2", "0">>],
       [t |-> 85, glow |-> <<"#", "6", "0", "f", "f", "6", "0">>],
       [t |-> 100, glow |-> <<"#", "a", "0", "f", "f", "e", "0">>] >>

PALETTE_ROYAL_BLUE ==
    << [t |-> 0, sky |-> <<"#", "0", "1", "0", "1", "0", "2">>, core |-> <<"#", "0", "3", "0", "3", "1", "8">>, inner |-> <<"#", "0", "2", "0", "2", "1", "0">>, outer |-> <<"#", "0", "1", "0", "1", "0", "8">>],
       [t |-> 10, sky |-> <<"#", "0", "1", "0", "1", "0", "2">>, core |-> <<"#", "0", "4", "0", "4", "1", "a">>, inner |-> <<"#", "0", "3", "0", "3", "1", "2">>, outer |-> <<"#", "0", "2", "0", "2", "0", "a">>],
       [t |-> 15, sky |-> <<"#", "0", "1", "0", "2", "0", "3">>, core |-> <<"#", "0", "5", "0", "5", "2", "a">>, inner |-> <<"#", "0", "4", "0", "4", "1", "a">>, outer |-> <<"#", "0", "3", "0", "3", "0", "f">>],
       [t |-> 22, sky |-> <<"#", "0", "2", "0", "3", "0", "4">>, core |-> <<"#", "0", "6", "0", "6", "3", "d">>, inner |-> <<"#", "0", "5", "0", "5", "2", "8">>, outer |-> <<"#", "0", "3", "0", "3", "1", "6">>],
       [t |-> 30, sky |-> <<"#", "0", "3", "0", "4", "0", "5">>, core |-> <<"#", "0", "8", "0", "8", "5", "5">>, inner |-> <<"#", "0", "6", "0", "6", "3", "8">>, outer |-> <<"#", "0", "4", "0", "4", "1", "e">>],
       [t |-> 38, sky |-> <<"#", "0", "4", "0", "5", "0", "6">>, core |-> <<"#", "0", "a", "0", "a", "7", "0">>, inner |-> <<"#", "0", "8", "0", "8", "4", "a">>, outer |-> <<"#", "0", "5", "0", "5", "2", "8">>],
       [t |-> 45, sky |-> <<"#", "0", "5", "0", "6", "0", "8">>, core |-> <<"#", "1", "0", "1", "0", "8", "a">>, inner |-> <<"#", "0", "8", "0", "a", "5", "e">>, outer |-> <<"#", "0", "6", "0", "6", "3", "2">>],
       [t |-> 50, sky |-> <<"#", "0", "6", "0", "7", "0", "a">>, core |-> <<"#", "1", "8", "1", "8", "a", "8">>, inner |-> <<"#", "1", "0", "1", "0", "7", "2">>, outer |-> <<"#", "0", "8", "0", "8", "3", "e">>],
       [t |-> 55, sky |-> <<"#", "0", "7", "0", "8", "0", "c">>, core |-> <<"#", "2", "8", "2", "8", "c", "0">>, inner |-> <<"#", "1", "8", "1", "8", "8", "8">>, outer |-> <<"#", "0", "a", "0", "a", "4", "a">>],
       [t |-> 62, sky |-> <<"#", "0", "8", "0", "a", "0", "e">>, core |-> <<"#", "3", "8", "3", "8", "d", "8">>, inner |-> <<"#", "2", "0", "2", "4", "a", "0">>, outer |-> <<"#", "1", "0", "1", "0", "5", "a">>],
       [t |-> 70, sky |-> <<"#", "0", "9", "0", "c", "1", "0">>, core |-> <<"#", "4", "8", "4", "8", "e", "8">>, inner |-> <<"#", "3", "0", "3", "2", "b", "8">>, outer |-> <<"#", "1", "4", "1", "4", "6", "c">>],
       [t |-> 78, sky |-> <<"#", "0", "a", "0", "e", "1", "4">>, core |-> <<"#", "6", "0", "6", "0", "f", "5">>, inner |-> <<"#", "4", "0", "4", "2", "c", "c">>, outer |-> <<"#", "1", "8", "1", "8", "8", "0">>],
       [t |-> 85, sky |-> <<"#", "0", "b", "1", "0", "1", "8">>, core |-> <<"#", "7", "8", "7", "8", "f", "f">>, inner |-> <<"#", "5", "0", "5", "2", "d", "e">>, outer |-> <<"#", "2", "0", "2", "0", "9", "4">>],
       [t |-> 90, sky |-> <<"#", "0", "c", "1", "2", "1", "c">>, core |-> <<"#", "9", "0", "9", "0", "f", "f">>, inner |-> <<"#", "6", "8", "6", "8", "e", "e">>, outer |-> <<"#", "2", "8", "2", "8", "a", "a">>],
       [t |-> 95, sky |-> <<"#", "0", "d", "1", "4", "2", "0">>, core |-> <<"#", "b", "0", "b", "0", "f", "f">>, inner |-> <<"#", "8", "0", "8", "0", "f", "c">>, outer |-> <<"#", "3", "0", "3", "0", "c", "0">>],
       [t |-> 100, sky |-> <<"#", "0", "e", "1", "6", "2", "4">>, core |-> <<"#", "d", "0", "d", "0", "f", "f">>, inner |-> <<"#", "a", "0", "a", "0", "f", "f">>, outer |-> <<"#", "4", "0", "4", "0", "d", "8">>] >>

GLOW_ROYAL_BLUE ==
    << [t |-> 0, glow |-> <<"#", "0", "6", "0", "6", "2", "a">>],
       [t |-> 10, glow |-> <<"#", "0", "8", "0", "8", "3", "a">>],
       [t |-> 50, glow |-> <<"#", "2", "0", "2", "0", "a", "a">>],
       [t |-> 85, glow |-> <<"#", "6", "0", "6", "0", "f", "f">>],
       [t |-> 100, glow |-> <<"#", "a", "0", "e", "0", "f", "f">>] >>

PALETTE_ROYAL_PURPLE ==
    << [t |-> 0, sky |-> <<"#", "0", "2", "0", "1", "0", "2">>, core |-> <<"#", "1", "8", "0", "3", "1", "8">>, inner |-> <<"#", "1", "0", "0", "2", "1", "0">>, outer |-> <<"#", "0", "8", "0", "1", "0", "8">>],
       [t |-> 10, sky |-> <<"#", "0", "2", "0", "1", "0", "2">>, core |-> <<"#", "1", "a", "0", "4", "1", "a">>, inner |-> <<"#", "1", "2", "0", "3", "1", "2">>, outer |-> <<"#", "0", "a", "0", "2", "0", "a">>],
       [t |-> 15, sky |-> <<"#", "0", "3", "0", "1", "0", "3">>, core |-> <<"#", "2", "a", "0", "5", "2", "a">>, inner |-> <<"#", "1", "a", "0", "4", "1", "a">>, outer |-> <<"#", "0", "f", "0", "3", "0", "f">>],
       [t |-> 22, sky |-> <<"#", "0", "4", "0", "2", "0", "4">>, core |-> <<"#", "3", "d", "0", "6", "3", "d">>, inner |-> <<"#", "2", "8", "0", "5", "2", "8">>, outer |-> <<"#", "1", "6", "0", "3", "1", "6">>],
       [t |-> 30, sky |-> <<"#", "0", "5", "0", "3", "0", "5">>, core |-> <<"#", "5", "5", "0", "8", "5", "5">>, inner |-> <<"#", "3", "8", "0", "6", "3", "8">>, outer |-> <<"#", "1", "e", "0", "4", "1", "e">>],
       [t |-> 38, sky |-> <<"#", "0", "6", "0", "4", "0", "6">>, core |-> <<"#", "7", "0", "0", "a", "7", "0">>, inner |-> <<"#", "4", "a", "0", "8", "4", "a">>, outer |-> <<"#", "2", "8", "0", "5", "2", "8">>],
       [t |-> 45, sky |-> <<"#", "0", "8", "0", "5", "0", "8">>, core |-> <<"#", "8", "a", "1", "0", "8", "a">>, inner |-> <<"#", "5", "e", "0", "a", "5", "e">>, outer |-> <<"#", "3", "2", "0", "6", "3", "2">>],
       [t |-> 50, sky |-> <<"#", "0", "a", "0", "6", "0", "a">>, core |-> <<"#", "a", "8", "1", "8", "a", "8">>, inner |-> <<"#", "7", "2", "1", "0", "7", "2">>, outer |-> <<"#", "3", "e", "0", "8", "3", "e">>],
       [t |-> 55, sky |-> <<"#", "0", "c", "0", "7", "0", "c">>, core |-> <<"#", "c", "0", "2", "8", "c", "0">>, inner |-> <<"#", "8", "8", "1", "8", "8", "8">>, outer |-> <<"#", "4", "a", "0", "a", "4", "a">>],
       [t |-> 62, sky |-> <<"#", "0", "e", "0", "8", "0", "e">>, core |-> <<"#", "d", "8", "3", "8", "d", "8">>, inner |-> <<"#", "a", "0", "2", "4", "a", "0">>, outer |-> <<"#", "5", "a", "1", "0", "5", "a">>],
       [t |-> 70, sky |-> <<"#", "1", "0", "0", "9", "1", "0">>, core |-> <<"#", "e", "8", "4", "8", "e", "8">>, inner |-> <<"#", "b", "8", "3", "2", "b", "8">>, outer |-> <<"#", "6", "c", "1", "4", "6", "c">>],
       [t |-> 78, sky |-> <<"#", "1", "4", "0", "a", "1", "4">>, core |-> <<"#", "f", "5", "6", "0", "f", "5">>, inner |-> <<"#", "c", "c", "4", "2", "c", "c">>, outer |-> <<"#", "8", "0", "1", "8", "8", "0">>],
       [t |-> 85, sky |-> <<"#", "1", "8", "0", "b", "1", "8">>, core |-> <<"#", "f", "f", "7", "8", "f", "f">>, inner |-> <<"#", "d", "e", "5", "2", "d", "e">>, outer |-> <<"#", "9", "4", "2", "0", "9", "4">>],
       [t |-> 90, sky |-> <<"#", "1", "c", "0", "c", "1", "c">>, core |-> <<"#", "f", "f", "9", "0", "f", "f">>, inner |-> <<"#", "e", "e", "6", "8", "e", "e">>, outer |-> <<"#", "a", "a", "2", "8", "a", "a">>],
       [t |-> 95, sky |-> <<"#", "2", "0", "0", "d", "2", "0">>, core |-> <<"#", "f", "f", "b", "0", "f", "f">>, inner |-> <<"#", "f", "c", "8", "0", "f", "c">>, outer |-> <<"#", "c", "0", "3", "0", "c", "0">>],
       [t |-> 100, sky |-> <<"#", "2", "4", "0", "e", "2", "4">>, core |-> <<"#", "f", "f", "d", "0", "f", "f">>, inner |-> <<"#", "f", "f", "a", "0", "f", "f">>, outer |-> <<"#", "d", "8", "4", "0", "d", "8">>] >>

GLOW_ROYAL_PURPLE ==
    << [t |-> 0, glow |-> <<"#", "2", "a", "0", "6", "2", "a">>],
       [t |-> 10, glow |-> <<"#", "3", "a", "0", "8", "3", "a">>],
       [t |-> 50, glow |-> <<"#", "a", "a", "2", "0", "a", "a">>],
       [t |-> 85, glow |-> <<"#", "f", "f", "6", "0", "f", "f">>],
       [t |-> 100, glow |-> <<"#", "f", "f", "a", "0", "f", "f">>] >>

PALETTE_CLAUDE_ORANGE ==
    << [t |-> 0, sky |-> <<"#", "0", "2", "0", "1", "0", "1">>, core |-> <<"#", "1", "8", "0", "a", "0", "3">>, inner |-> <<"#", "1", "0", "0", "6", "0", "2">>, outer |-> <<"#", "0", "8", "0", "3", "0", "1">>],
       [t |-> 10, sky |-> <<"#", "0", "2", "0", "1", "0", "1">>, core |-> <<"#", "1", "a", "0", "c", "0", "4">>, inner |-> <<"#", "1", "2", "0", "8", "0", "3">>, outer |-> <<"#", "0", "a", "0", "5", "0", "2">>],
       [t |-> 15, sky |-> <<"#", "0", "3", "0", "2", "0", "1">>, core |-> <<"#", "2", "a", "1", "2", "0", "5">>, inner |-> <<"#", "1", "a", "0", "c", "0", "4">>, outer |-> <<"#", "0", "f", "0", "7", "0", "3">>],
       [t |-> 22, sky |-> <<"#", "0", "4", "0", "3", "0", "2">>, core |-> <<"#", "3", "d", "1", "a", "0", "6">>, inner |-> <<"#", "2", "8", "1", "2", "0", "5">>, outer |-> <<"#", "1", "6", "0", "a", "0", "3">>],
       [t |-> 30, sky |-> <<"#", "0", "5", "0", "4", "0", "3">>, core |-> <<"#", "5", "5", "2", "4", "0", "8">>, inner |-> <<"#", "3", "8", "1", "a", "0", "6">>, outer |-> <<"#", "1", "e", "1", "0", "0", "4">>],
       [t |-> 38, sky |-> <<"#", "0", "6", "0", "5", "0", "4">>, core |-> <<"#", "7", "0", "3", "0", "0", "a">>, inner |-> <<"#", "4", "a", "2", "4", "0", "8">>, outer |-> <<"#", "2", "8", "1", "6", "0", "5">>],
       [t |-> 45, sky |-> <<"#", "0", "8", "0", "6", "0", "5">>, core |-> <<"#", "8", "a", "4", "0", "1", "0">>, inner |-> <<"#", "5", "e", "3", "0", "0", "a">>, outer |-> <<"#", "3", "2", "1", "c", "0", "6">>],
       [t |-> 50, sky |-> <<"#", "0", "a", "0", "7", "0", "6">>, core |-> <<"#", "a", "8", "5", "0", "1", "8">>, inner |-> <<"#", "7", "2", "4", "0", "1", "0">>, outer |-> <<"#", "3", "e", "2", "4", "0", "8">>],
       [t |-> 55, sky |-> <<"#", "0", "c", "0", "8", "0", "7">>, core |-> <<"#", "c", "0", "6", "0", "2", "0">>, inner |-> <<"#", "8", "8", "5", "0", "1", "8">>, outer |-> <<"#", "4", "a", "2", "c", "0", "a">>],
       [t |-> 62, sky |-> <<"#", "0", "e", "0", "a", "0", "8">>, core |-> <<"#", "d", "8", "7", "0", "2", "8">>, inner |-> <<"#", "a", "0", "6", "0", "2", "0">>, outer |-> <<"#", "5", "a", "3", "4", "1", "0">>],
       [t |-> 70, sky |-> <<"#", "1", "0", "0", "c", "0", "9">>, core |-> <<"#", "e", "8", "8", "0", "3", "0">>, inner |-> <<"#", "b", "8", "7", "0", "2", "8">>, outer |-> <<"#", "6", "c", "3", "c", "1", "4">>],
       [t |-> 78, sky |-> <<"#", "1", "4", "0", "e", "0", "a">>, core |-> <<"#", "f", "5", "9", "0", "3", "8">>, inner |-> <<"#", "c", "c", "8", "0", "3", "0">>, outer |-> <<"#", "8", "0", "4", "8", "1", "8">>],
       [t |-> 85, sky |-> <<"#", "1", "8", "1", "0", "0", "b">>, core |-> <<"#", "f", "f", "a", "0", "4", "0">>, inner |-> <<"#", "d", "e", "9", "0", "3", "8">>, outer |-> <<"#", "9", "4", "5", "0", "2", "0">>],
       [t |-> 90, sky |-> <<"#", "1", "c", "1", "2", "0", "c">>, core |-> <<"#", "f", "f", "b", "0", "5", "0">>, inner |-> <<"#", "e", "e", "a", "0", "4", "0">>, outer |-> <<"#", "a", "a", "5", "8", "2", "8">>],
       [t |-> 95, sky |-> <<"#", "2", "0", "1", "4", "0", "d">>, core |-> <<"#", "f", "f", "c", "0", "6", "0">>, inner |-> <<"#", "f", "c", "b", "0", "5", "0">>, outer |-> <<"#", "c", "0", "6", "0", "3", "0">>],
       [t |-> 100, sky |-> <<"#", "2", "4", "1", "6", "0", "e">>, core |-> <<"#", "f", "f", "d", "0", "8", "0">>, inner |-> <<"#", "f", "f", "c", "0", "6", "0">>, outer |-> <<"#", "d", "8", "7", "0", "4", "0">>] >>

GLOW_CLAUDE_ORANGE ==
    << [t |-> 0, glow |-> <<"#", "2", "a", "1", "2", "0", "6">>],
       [t |-> 10, glow |-> <<"#", "3", "a", "1", "a", "0", "8">>],
       [t |-> 50, glow |-> <<"#", "a", "a", "5", "0", "2", "0">>],
       [t |-> 85, glow |-> <<"#", "f", "f", "8", "0", "4", "0">>],
       [t |-> 100, glow |-> <<"#", "f", "f", "c", "0", "8", "0">>] >>

PALETTES ==
    [blood_red |-> PALETTE_BLOOD_RED, forest_green |-> PALETTE_FOREST_GREEN,
     royal_blue |-> PALETTE_ROYAL_BLUE, royal_purple |-> PALETTE_ROYAL_PURPLE,
     claude_orange |-> PALETTE_CLAUDE_ORANGE]

GLOWS ==
    [blood_red |-> GLOW_BLOOD_RED, forest_green |-> GLOW_FOREST_GREEN,
     royal_blue |-> GLOW_ROYAL_BLUE, royal_purple |-> GLOW_ROYAL_PURPLE,
     claude_orange |-> GLOW_CLAUDE_ORANGE]

----------------------------------------------------------------------------
(* animation-core.ts: color utilities *)

HexDigits == <<"0", "1", "2", "3", "4", "5", "6", "7", "8", "9",
               "a", "b", "c", "d", "e", "f">>
UpperHexDigits == <<"0", "1", "2", "3", "4", "5", "6", "7", "8", "9",
                    "A", "B", "C", "D", "E", "F">>

\* [a-f\d] under the i flag
IsHexDigit(ch) == \E k \in 1..16 : HexDigits[k] = ch \/ UpperHexDigits[k] = ch

\* parseInt of one hex digit
HexValue(ch) == (CHOOSE k \in 1..16 : HexDigits[k] = ch \/ UpperHexDigits[k] = ch) - 1

\* parseInt(two digits, 16)
ParseHexPair(hi, lo) == 16 * HexValue(hi) + HexValue(lo)

\* /^#?([a-f\d]{2})([a-f\d]{2})([a-f\d]{2})$/i, [0, 0, 0] without a match
hexToRgb(hex) ==
    LET body == IF Len(hex) > 0 /\ hex[1] = "#" THEN Tail(hex) ELSE hex IN
    IF Len(body) = 6 /\ \A k \in 1..6 : IsHexDigit(body[k])
    THEN <<ParseHexPair(body[1], body[2]), ParseHexPair(body[3], body[4]),
           ParseHexPair(body[5], body[6])>>
    ELSE <<0, 0, 0>>

\* clamp(c).toString(16).padStart(2, '0') for the channel value n / den
ChannelToHex(n, den) ==
    LET c == Max(0, Min(255, MathRound(n, den))) IN
    <<HexDigits[(c \div 16) + 1], HexDigits[(c % 16) + 1]>>

\* rgbToHex of three channels given as numerators over den
rgbToHex(r, g, b, den) ==
    <<"#">> \o ChannelToHex(r, den) \o ChannelToHex(g, den) \o ChannelToHex(b, den)

\* the interpolation run from b to a
lerp_swapped(a, b, tn, td) == b * td + (a - b) * tn

\* numerator over td of lerp(a, b, tn / td) = a + (b - a) * t
lerp(a, b, tn, td) == a * td + (b - a) * tn

lerpColor(c1, c2, tn, td) ==
    LET Mix(rgb1, rgb2) ==
            rgbToHex(lerp(rgb1[1], rgb2[1], tn, td), lerp(rgb1[2], rgb2[2], tn, td),
                     lerp(rgb1[3], rgb2[3], tn, td), td)
    IN  Mix(hexToRgb(c1), hexToRgb(c2))

----------------------------------------------------------------------------
(* animation-core.ts: getColors *)

\* the bracket loops of getColors: the first i with steps[i].t <= p <= steps[i+1].t,
\* and (first, last) when the loop ends without a break
RECURSIVE FindBracket(_, _, _)
FindBracket(steps, i, p) ==
    IF i > Len(steps) - 1 THEN <<1, Len(steps)>>
    ELSE IF p >= steps[i].t /\ p <= steps[i + 1].t THEN <<i, i + 1>>
    ELSE FindBracket(steps, i + 1, p)

\* the bracket and the local fraction (num over den) of one keyframe track
Bracket(steps, p) ==
    LET b == FindBracket(steps, 1, p)
        lo == steps[b[1]]
        hi == steps[b[2]]
        span == hi.t - lo.t
    IN  [lo |-> lo, hi |-> hi,
         num |-> IF span > 0 THEN p - lo.t ELSE 0,
         den |-> IF span > 0 THEN span ELSE 1]

getColors(p, th) ==
    LET Colors(k, g) ==
            [sky |-> lerpColor(k.lo.sky, k.hi.sky, k.num, k.den),
             core |-> lerpColor(k.lo.core, k.hi.core, k.num, k.den),
             inner |-> lerpColor(k.lo.inner, k.hi.inner, k.num, k.den),
             outer |-> lerpColor(k.lo.outer, k.hi.outer, k.num, k.den),
             glow |-> lerpColor(g.lo.glow, g.hi.glow, g.num, g.den)]
    IN  Colors(Bracket(PALETTES[th], p), Bracket(GLOWS[th], p))

----------------------------------------------------------------------------
(* animation-core.ts: font tables, each row a sequence of code units *)

BOLD_FONT ==
    "A" :> << <<" ", "u0442", "u0427", "u041F", " ">>,
                <<"u0442", "u0427", "u041F", " ", "u0442", "u0427", "u041F">>,
                <<"u0442", "u0427", "u041F", "u0442", "u0427", "u041F", "u0442", "u0427", "u041F">>,
                <<"u0442", "u0427", "u041F", " ", "u0442", "u0427", "u041F">>,
                <<"u0442", "u0427", "u041F", " ", "u0442", "u0427", "u041F">> >> @@
    "C" :> << <<" ", "u0442", "u0427", "u041F", "u0442", "u0427", "u041F">>,
                <<"u0442", "u0427", "u041F", " ", " ">>,
                <<"u0442", "u0427", "u041F", " ", " ">>,
                <<"u0442", "u0427", "u041F", " ", " ">>,
                <<" ", "u0442", "u0427", "u041F", "u0442", "u0427", "u041F">> >> @@
    "E" :> << <<"u0442", "u0427", "u041F", "u0442", "u0427", "u041F", "u0442", "u0427", "u041F">>,
                <<"u0442", "u0427", "u041F", " ", " ">>,
                <<"u0442", "u0427", "u041F", "u0442", "u0427", "u041F", " ">>,
                <<"u0442", "u0427", "u041F", " ", " ">>,
                <<"u0442", "u0427", "u041F", "u0442", "u0427", "u041F", "u0442", "u0427", "u041F">> >> @@
    "G" :> << <<" ", "u0442", "u0427", "u041F", "u0442", "u0427", "u041F">>,
                <<"u0442", "u0427", "u041F", " ", " ">>,
                <<"u0442", "u0427", "u041F", " ", "u0442", "u0427", "u041F">>,
                <<"u0442", "u0427", "u041F", " ", "u0442", "u0427", "u041F">>,
                <<" ", "u0442", "u0427", "u041F", "u0442", "u0427", "u041F">> >> @@
    "H" :> << <<"u0442", "u0427", "u041F", " ", "u0442", "u0427", "u041F">>,
                <<"u0442", "u0427", "u041F", " ", "u0442", "u0427", "u041F">>,
                <<"u0442", "u0427", "u041F", "u0442", "u0427", "u041F", "u0442", "u0427", "u041F">>,
                <<"u0442", "u0427", "u041F", " ", "u0442", "u0427", "u041F">>,
                <<"u0442", "u0427", "u041F", " ", "u0442", "u0427", "u041F">> >> @@
    "I" :> << <<"u0442", "u0427", "u041F", "u0442", "u0427", "u041F", "u0442", "u0427", "u041F">>,
                <<" ", "u0442", "u0427", "u041F", " ">>,
                <<" ", "u0442", "u0427", "u041F", " ">>,
                <<" ", "u0442", "u0427", "u041F", " ">>,
                <<"u0442", "u0427", "u041F", "u0442", "u0427", "u041F", "u0442", "u0427", "u041F">> >> @@
    "J" :> << <<" ", " ", "u0442", "u0427", "u041F">>,
                <<" ", " ", "u0442", "u0427", "u041F">>,
                <<" ", " ", "u0442", "u0427", "u041F">>,
                <<"u0442", "u0427", "u041F", " ", "u0442", "u0427", "u041F">>,
                <<" ", "u0442", "u0427", "u041F", " ">> >> @@
    "K" :> << <<"u0442", "u0427", "u041F", " ", "u0442", "u0427", "u041F">>,
                <<"u0442", "u0427", "u041F", "u0442", "u0427", "u041F", " ">>,
                <<"u0442", "u0427", "u041F", " ", " ">>,
                <<"u0442", "u0427", "u041F", "u0442", "u0427", "u041F", " ">>,
                <<"u0442", "u0427", "u041F", " ", "u0442", "u0427", "u041F">> >> @@
    "L" :> << <<"u0442", "u0427", "u041F", " ", " ">>,
                <<"u0442", "u0427", "u041F", " ", " ">>,
                <<"u0442", "u0427", "u041F", " ", " ">>,
                <<"u0442", "u0427", "u041F", " ", " ">>,
                <<"u0442", "u0427", "u041F", "u0442", "u0427", "u041F", "u0442", "u0427", "u041F">> >> @@
    "M" :> << <<"u0442", "u0427", "u041F", " ", "u0442", "u0427", "u041F">>,
                <<"u0442", "u0427", "u041F", "u0442", "u0427", "u041F", "u0442", "u0427", "u041F">>,
                <<"u0442", "u0427", "u041F", " ", "u0442", "u0427", "u041F">>,
                <<"u0442", "u0427", "u041F", " ", "u0442", "u0427", "u041F">>,
                <<"u0442", "u0427", "u041F", " ", "u0442", "u0427", "u041F">> >> @@
    "N" :> << <<"u0442", "u0427", "u041F", " ", "u0442", "u0427", "u041F">>,
                <<"u0442", "u0427", "u041F", "u0442", "u0427", "u041F", "u0442", "u0427", "u041F">>,
                <<"u0442", "u0427", "u041F", "u0442", "u0427", "u041F", "u0442", "u0427", "u041F">>,
                <<"u0442", "u0427", "u041F", " ", "u0442", "u0427", "u041F">>,
                <<"u0442", "u0427", "u041F", " ", "u0442", "u0427", "u041F">> >> @@
    "O" :> << <<" ", "u0442", "u0427", "u041F", " ">>,
                <<"u0442", "u0427", "u041F", " ", "u0442", "u0427", "u041F">>,
                <<"u0442", "u0427", "u041F", " ", "u0442", "u0427", "u041F">>,
                <<"u0442", "u0427", "u041F", " ", "u0442", "u0427", "u041F">>,
                <<" ", "u0442", "u0427", "u041F", " ">> >> @@
    "S" :> << <<"u0442", "u0427", "u041F", "u0442", "u0427", "u041F", "u0442", "u0427", "u041F">>,
                <<"u0442", "u0427", "u041F", " ", " ">>,
                <<"u0442", "u0427", "u041F", "u0442", "u0427", "u041F", "u0442", "u0427", "u041F">>,
                <<" ", " ", "u0442", "u0427", "u041F">>,
                <<"u0442", "u0427", "u041F", "u0442", "u0427", "u041F", "u0442", "u0427", "u041F">> >> @@
    "T" :> << <<"u0442", "u0427", "u041F", "u0442", "u0427", "u041F", "u0442", "u0427", "u041F">>,
                <<" ", "u0442", "u0427", "u041F", " ">>,
                <<" ", "u0442", "u0427", "u041F", " ">>,
                <<" ", "u0442", "u0427", "u041F", " ">>,
                <<" ", "u0442", "u0427", "u041F", " ">> >> @@
    "U" :> << <<"u0442", "u0427", "u041F", " ", "u0442", "u0427", "u041F">>,
                <<"u0442", "u0427", "u041F", " ", "u0442", "u0427", "u041F">>,
                <<"u0442", "u0427", "u041F", " ", "u0442", "u0427", "u041F">>,
                <<"u0442", "u0427", "u041F", " ", "u0442", "u0427", "u041F">>,
                <<"u0442", "u0427", "u041F", "u0442", "u0427", "u041F", "u0442", "u0427", "u041F">> >> @@
    "W" :> << <<"u0442", "u0427", "u041F", " ", "u0442", "u0427", "u041F">>,
                <<"u0442", "u0427", "u041F", " ", "u0442", "u0427", "u041F">>,
                <<"u0442", "u0427", "u041F", "u0442", "u0427", "u041F", "u0442", "u0427", "u041F">>,
                <<"u0442", "u0427", "u041F", "u0442", "u0427", "u041F", "u0442", "u0427", "u041F">>,
                <<"u0442", "u0427", "u041F", " ", "u0442", "u0427", "u041F">> >> @@
    " " :> << <<" ">>,
                <<" ">>,
                <<" ">>,
                <<" ">>,
                <<" ">> >>

SEGMENT_FONT ==
    "0" :> << <<"u0442", "u0424", "u041C", "u0442", "u0424", "u0410", "u0442", "u0424", "u0410", "u0442", "u0424", "u0410", "u0442", "u0424", "u0420">>,
                <<"u0442", "u0424", "u0412", " ", " ", " ", "u0442", "u0424", "u0412">>,
                <<"u0442", "u0424", "u0412", " ", " ", " ", "u0442", "u0424", "u0412">>,
                <<"u0442", "u0424", "u0412", " ", " ", " ", "u0442", "u0424", "u0412">>,
                <<"u0442", "u0424", "u0424", "u0442", "u0424", "u0410", "u0442", "u0424", "u0410", "u0442", "u0424", "u0410", "u0442", "u0424", "u0428">> >> @@
    "1" :> << <<" ", " ", " ", " ", "u0442", "u0425", "u2556">>,
                <<" ", " ", " ", " ", "u0442", "u0424", "u0412">>,
                <<" ", " ", " ", " ", "u0442", "u0424", "u0412">>,
                <<" ", " ", " ", " ", "u0442", "u0424", "u0412">>,
                <<" ", " ", " ", " ", "u0442", "u0425", "u2561">> >> @@
    "2" :> << <<"u0442", "u0425", "u2562", "u0442", "u0424", "u0410", "u0442", "u0424", "u0410", "u0442", "u0424", "u0410", "u0442", "u0424", "u0420">>,
                <<" ", " ", " ", " ", "u0442", "u0424", "u0412">>,
                <<"u0442", "u0424", "u041C", "u0442", "u0424", "u0410", "u0442", "u0424", "u0410", "u0442", "u0424", "u0410", "u0442", "u0424", "u0428">>,
                <<"u0442", "u0424", "u0412", " ", " ", " ", " ">>,
                <<"u0442", "u0424", "u0424", "u0442", "u0424", "u0410", "u0442", "u0424", "u0410", "u0442", "u0424", "u0410", "u0442", "u0425", "u2524">> >> @@
    "3" :> << <<"u0442", "u0425", "u2562", "u0442", "u0424", "u0410", "u0442", "u0424", "u0410", "u0442", "u0424", "u0410", "u0442", "u0424", "u0420">>,
                <<" ", " ", " ", " ", "u0442", "u0424", "u0412">>,
                <<"u0442", "u0425", "u2562", "u0442", "u0424", "u0410", "u0442", "u0424", "u0410", "u0442", "u0424", "u0410", "u0442", "u0424", "u0434">>,
                <<" ", " ", " ", " ", "u0442", "u0424", "u0412">>,
                <<"u0442", "u0425", "u2562", "u0442", "u0424", "u0410", "u0442", "u0424", "u0410", "u0442", "u0424", "u0410", "u0442", "u0424", "u0428">> >> @@
    "4" :> << <<"u0442", "u0425", "u2556", " ", " ", " ", "u0442", "u0425", "u2556">>,
                <<"u0442", "u0424", "u0412", " ", " ", " ", "u0442", "u0424", "u0412">>,
                <<"u0442", "u0424", "u0424", "u0442", "u0424", "u0410", "u0442", "u0424", "u0410", "u0442", "u0424", "u0410", "u0442", "u0424", "u0434">>,
                <<" ", " ", " ", " ", "u0442", "u0424", "u0412">>,
                <<" ", " ", " ", " ", "u0442", "u0425", "u2561">> >> @@
    "5" :> << <<"u0442", "u0424", "u041C", "u0442", "u0424", "u0410", "u0442", "u0424", "u0410", "u0442", "u0424", "u0410", "u0442", "u0425", "u2524">>,
                <<"u0442", "u0424", "u0412", " ", " ", " ", " ">>,
                <<"u0442", "u0424", "u0424", "u0442", "u0424", "u0410", "u0442", "u0424", "u0410", "u0442", "u0424", "u0410", "u0442", "u0424", "u0420">>,
                <<" ", " ", " ", " ", "u0442", "u0424", "u0412">>,
                <<"u0442", "u0425", "u2562", "u0442", "u0424", "u0410", "u0442", "u0424", "u0410", "u0442", "u0424", "u0410", "u0442", "u0424", "u0428">> >> @@
    "6" :> << <<"u0442", "u0424", "u041C", "u0442", "u0424", "u0410", "u0442", "u0424", "u0410", "u0442", "u0424", "u0410", "u0442", "u0425", "u2524">>,
                <<"u0442", "u0424", "u0412", " ", " ", " ", " ">>,
                <<"u0442", "u0424", "u042C", "u0442", "u0424", "u0410", "u0442", "u0424", "u0410", "u0442", "u0424", "u0410", "u0442", "u0424", "u0420">>,
                <<"u0442", "u0424", "u0412", " ", " ", " ", "u0442", "u0424", "u0412">>,
                <<"u0442", "u0424", "u0424", "u0442", "u0424", "u0410", "u0442", "u0424", "u0410", "u0442", "u0424", "u0410", "u0442", "u0424", "u0428">> >> @@
    "7" :> << <<"u0442", "u0425", "u2562", "u0442", "u0424", "u0410", "u0442", "u0424", "u0410", "u0442", "u0424", "u0410", "u0442", "u0424", "u0420">>,
                <<" ", " ", " ", " ", "u0442", "u0424", "u0412">>,
                <<" ", " ", " ", " ", "u0442", "u0424", "u0412">>,
                <<" ", " ", " ", " ", "u0442", "u0424", "u0412">>,
                <<" ", " ", " ", " ", "u0442", "u0425", "u2561">> >> @@
    "8" :> << <<"u0442", "u0424", "u041C", "u0442", "u0424", "u0410", "u0442", "u0424", "u0410", "u0442", "u0424", "u0410", "u0442", "u0424", "u0420">>,
                <<"u0442", "u0424", "u0412", " ", " ", " ", "u0442", "u0424", "u0412">>,
                <<"u0442", "u0424", "u042C", "u0442", "u0424", "u0410", "u0442", "u0424", "u0410", "u0442", "u0424", "u0410", "u0442", "u0424", "u0434">>,
                <<"u0442", "u0424", "u0412", " ", " ", " ", "u0442", "u0424", "u0412">>,
                <<"u0442", "u0424", "u0424", "u0442", "u0424", "u0410", "u0442", "u0424", "u0410", "u0442", "u0424", "u0410", "u0442", "u0424", "u0428">> >> @@
    "9" :> << <<"u0442", "u0424", "u041C", "u0442", "u0424", "u0410", "u0442", "u0424", "u0410", "u0442", "u0424", "u0410", "u0442", "u0424", "u0420">>,
                <<"u0442", "u0424", "u0412", " ", " ", " ", "u0442", "u0424", "u0412">>,
                <<"u0442", "u0424", "u0424", "u0442", "u0424", "u0410", "u0442", "u0424", "u0410", "u0442", "u0424", "u0410", "u0442", "u0424", "u0434">>,
                <<" ", " ", " ", " ", "u0442", "u0424", "u0412">>,
                <<"u0442", "u0425", "u2562", "u0442", "u0424", "u0410", "u0442", "u0424", "u0410", "u0442", "u0424", "u0410", "u0442", "u0424", "u0428">> >> @@
    ":" :> << <<" ", " ", " ", " ", " ">>,
                <<" ", " ", "u0442", "u0427", "u041F", " ", " ">>,
                <<" ", " ", " ", " ", " ">>,
                <<" ", " ", "u0442", "u0427", "u041F", " ", " ">>,
                <<" ", " ", " ", " ", " ">> >> @@
    " " :> << <<" ", " ", " ", " ", " ">>,
                <<" ", " ", " ", " ", " ">>,
                <<" ", " ", " ", " ", " ">>,
                <<" ", " ", " ", " ", " ">>,
                <<" ", " ", " ", " ", " ">> >>

----------------------------------------------------------------------------
(* animation-core.ts: text utilities *)

\* the literal that textToPointsBold compares one code unit of a row with
BOLD_FILLED == <<"u0442", "u0427", "u041F">>

LowerCase == <<"a", "b", "c", "d", "e", "f", "g", "h", "i", "j", "k", "l", "m",
               "n", "o", "p", "q", "r", "s", "t", "u", "v", "w", "x", "y", "z">>
UpperCase == <<"A", "B", "C", "D", "E", "F", "G", "H", "I", "J", "K", "L", "M",
               "N", "O", "P", "Q", "R", "S", "T", "U", "V", "W", "X", "Y", "Z">>

\* String.prototype.toUpperCase on one character
ToUpperCase(ch) ==
    IF \E k \in 1..26 : LowerCase[k] = ch
    THEN UpperCase[CHOOSE k \in 1..26 : LowerCase[k] = ch]
    ELSE ch

\* a character without an entry drawn as a one-cell box
GlyphOf_box(font, ch) == IF ch \in DOMAIN font THEN font[ch] ELSE << <<"#">> >>

\* FONT[char] || FONT[' ']
GlyphOf(font, ch) == IF ch \in DOMAIN font THEN font[ch] ELSE font[" "]

\* (glyph[0]?.length || fallback) + 1
GlyphAdvance(glyph, fallback) ==
    (IF Len(glyph) > 0 /\ Len(glyph[1]) > 0 THEN Len(glyph[1]) ELSE fallback) + 1

\* textToPointsBold: the loop over the code units c.. of one glyph row
RECURSIVE BoldRowPoints(_, _, _, _)
BoldRowPoints(rowStr, row, col, c) ==
    IF c > Len(rowStr) THEN <<>>
    ELSE (IF <<rowStr[c]>> = BOLD_FILLED THEN << <<row, col + c - 1>> >> ELSE <<>>)
            \o BoldRowPoints(rowStr, row, col, c + 1)

\* textToPointsBold: the loop over the rows row.. of one glyph
RECURSIVE BoldGlyphPoints(_, _, _)
BoldGlyphPoints(glyph, row, col) ==
    IF row > Len(glyph) THEN <<>>
    ELSE BoldRowPoints(glyph[row], row - 1, col, 1) \o BoldGlyphPoints(glyph, row + 1, col)

\* textToPointsBold: the loop over the characters k.. of the text
RECURSIVE BoldTextPoints(_, _, _)
BoldTextPoints(text, k, col) ==
    IF k > Len(text) THEN <<>>
    ELSE LET glyph == GlyphOf(BOLD_FONT, ToUpperCase(text[k])) IN
         BoldGlyphPoints(glyph, 1, col)
            \o BoldTextPoints(text, k + 1, col + GlyphAdvance(glyph, 3))

textToPointsBold(text, startCol) == BoldTextPoints(text, 1, startCol)

\* timeToSegmentPoints: the loop over the code units c.. of one glyph row
RECURSIVE SegmentRowPoints(_, _, _, _)
SegmentRowPoints(rowStr, row, col, c) ==
    IF c > Len(rowStr) THEN <<>>
    ELSE (IF rowStr[c] # " "
          THEN << [point |-> <<row, col + c - 1>>, char |-> <<rowStr[c]>>] >>
          ELSE <<>>)
            \o SegmentRowPoints(rowStr, row, col, c + 1)

\* timeToSegmentPoints: the loop over the rows row.. of one glyph
RECURSIVE SegmentGlyphPoints(_, _, _)
SegmentGlyphPoints(glyph, row, col) ==
    IF row > Len(glyph) THEN <<>>
    ELSE SegmentRowPoints(glyph[row], row - 1, col, 1)
            \o SegmentGlyphPoints(glyph, row + 1, col)

\* timeToSegmentPoints: the loop over the characters k.. of the text
RECURSIVE SegmentTextPoints(_, _, _)
SegmentTextPoints(text, k, col) ==
    IF k > Len(text) THEN <<>>
    ELSE LET glyph == GlyphOf(SEGMENT_FONT, text[k]) IN
         SegmentGlyphPoints(glyph, 1, col)
            \o SegmentTextPoints(text, k + 1, col + GlyphAdvance(glyph, 5))

timeToSegmentPoints(text, startCol) == SegmentTextPoints(text, 1, startCol)

----------------------------------------------------------------------------
(* animation-core.ts: easing; the result is a numerator over td^2 or td^3 *)

\* easeOutQuad(tn / td) = 1 - (1 - t)^2, numerator over td * td
easeOutQuad(tn, td) == td * td - (td - tn) * (td - tn)

\* easeOutCubic(tn / td) = 1 - (1 - t)^3, numerator over td * td * td
easeOutCubic(tn, td) == td * td * td - (td - tn) * (td - tn) * (td - tn)

EASE_DEN == MORPH_FRAMES * MORPH_FRAMES * MORPH_FRAMES

\* the cutover taken at eased > 0.7
PastGlyphThreshold_early(e) == 10 * e > 7 * EASE_DEN

\* eased > 0.8 for an eased value e / EASE_DEN
PastGlyphThreshold(e) == 10 * e > 8 * EASE_DEN

----------------------------------------------------------------------------
(* Math.sin and Math.cos at the golden angles i * 137.508 degrees, i = 0..260,
   in millionths *)

SIN_DEN == 1000000

GOLDEN_SIN ==
    << 0, 675487, -996170, 793608, -174198, -536711, 965709, -887462, 343070, 381522,
       -905717, 954178, -501450, -214667, 818029, -991716, 644497, 41248, -705327, 998929,
       -767836, 133433, 571057, -975596, 867696, -304033, -419325, 922430, -941023, 465336,
       254771, -841058, 985574, -612410, -82426, 733967, -999987, 740758, -92440, -604432,
       983823, -846453, 264479, 456415, -937574, 926266, -428431, -294441, 862655, -977754,
       579281, 123463, -761357, 999344, -712418, 51290, 636778, -990375, 823770, -224475,
       -492727, 951121, -909932, 390795, 333609, -882784, 968270, -545166, -164290, 787452,
       -996999, 682866, -10053, -668040, 995241, -799685, 184089, 528201, -963050, 892050,
       -352495, -372210, 901410, -957138, 510123, 204838, -812206, 992957, -652151, -31201,
       698165, -998413, 774238, -143389, -562776, 973339, -872649, 313595, 410178, -918502,
       944376, -474211, -245037, 835577, -987225, 620327, 72403, -727102, 999886, -747474,
       102445, 596393, -981972, 851764, -274161, -447447, 934030, -930008, 437492, 284819,
       -857527, 979813, -587446, -113481, 754801, -999657, 719437, -61327, -628995, 988933,
       -829428, 234260, 483955, -947969, 914056, -400029, -324116, 878016, -970733, 553566,
       154366, -781215, 997727, -690175, 20105, 660526, -994211, 805680, -193960, -519638,
       960294, -896548, 361885, 362861, -897012, 960001, -518743, -194988, 806300, -994098,
       659739, 21152, -690933, 997797, -780561, 153331, 554438, -970984, 877515, -323125,
       -400989, 914480, -947635, 483038, 235278, -830012, 988777, -628180, -62372, 720164,
       -999684, 754114, -112440, -588293, 980022, -856987, 283815, 438434, -930392, 933655,
       -446510, -275168, 852312, -981773, 595552, 103487, -748169, 999870, -726383, 71358,
       621148, -987392, 835002, -244021, -475133, 944720, -918087, 409222, 314589, -873160,
       973099, -561910, -144425, 774900, -998354, 697415, -30155, -652945, 993081, -811594,
       203813, 511023, -957440, 900956, -371238, -353475, 892523, -962767, 527312, 185118,
       -800313, 995138, -667261, -11100, 683631, -997079, 786806, -163257, -546043, 968531,
       -882291, 332622, 391759, -910366, 950797, -491816, -225495, 824363, -990229, 635970,
       52336, -713153, 999381, -760678, 122424, 580134, -977973, 862125, -293440, -429377,
       926660 >>

GOLDEN_COS ==
    << 1000000, -737372, 87434, 608429, -984711, 843766, -259628, -460881, 939310, -924360,
       423883, 299241, -865186, 976687, -575177, -128449, 764607, -999149, 708882, -46270,
       -640646, 991058, -820910, 219574, 497095, -952661, 907836, -386164, -338344, 885134,
       -967001, 540945, 169246, -790540, 996597, -679185, 5027, 671772, -995718, 796657,
       -179146, -532463, 964391, -889767, 347787, 376871, -903575, 955670, -505793, -209755,
       815128, -992349, 648333, 36225, -701755, 998684, -771047, 138413, 566924, -974480,
       870184, -308818, -414757, 920478, -942711, 469780, 249907, -838328, 986412, -616376,
       -77415, 730544, -999949, 744125, -97444, -600420, 982910, -849119, 269323, 451937,
       -935814, 928148, -432967, -289633, 860102, -978796, 583371, 118473, -758089, 999513,
       -715936, 56309, 632895, -989666, 826609, -229370, -488347, 949557, -912006, 395417,
       328867, -880411, 969514, -549373, -159330, 784343, -997375, 686529, -15079, -664292,
       994739, -802693, 189027, 523926, -961684, 894310, -357194, -367540, 899222, -958581,
       514440, 199915, -809263, 993540, -655954, -26177, 694558, -998118, 777410, -148362,
       -558614, 972174, -875093, 318364, 405588, -916502, 946017, -478631, -240160, 832805,
       -988014, 624261, 67388, -723642, 999798, -750803, 107444, 592351, -981009, 854386,
       -278991, -442946, 932223, -931843, 442007, 279997, -854930, 980806, -591507, -108485,
       751494, -999776, 722919, -66344, -625079, 988175, -832225, 239144, 479550, -946356,
       916083, -404631, -319356, 875599, -971928, 557745, 149397, -778068, 998053, -693804,
       25130, 656744, -993658, 808648, -198889, -515337, 958879, -898763, 366566, 358172,
       -894779, 961396, -523034, -190055, 803317, -994631, 663508, 16126, -687290, 997451,
       -783693, 158296, 550248, -969770, 879914, -327878, -396379, 912435, -949228, 487433,
       230389, -827198, 989516, -632083, -57355, 716667, -999545, 757405, -117433, -584221,
       979010, -859567, 288631, 433911, -928538, 935444, -451002, -270332, 849672, -982716,
       599582, 98486, -744824, 999938, -729828, 76371, 617201, -986584, 837757, -248893,
       -470704, 943060, -920068, 413804, 309814, -870699, 974244, -566061, -139450, 771713,
       -998630, 701009, -35179, -649129, 992478, -814521, 208731, 506696, -955978, 903126,
       -375901 >>

\* Math.round(Math.sin(angle) * dist) and Math.round(Math.cos(angle) * dist)
\* for angle = (i * 137.508) * (Math.PI / 180)
GoldenRow(i, dist) == MathRound(GOLDEN_SIN[i + 1] * dist, SIN_DEN)
GoldenCol(i, dist) == MathRound(GOLDEN_COS[i + 1] * dist, SIN_DEN)

----------------------------------------------------------------------------
(* components/Animation.tsx: text morphing *)

\* the filled dot as Animation.tsx and render-frames.ts write it (U+25CF)
DOT == <<"u25CF">>

WELCOME_TEXT == <<"W", "E", "L", "C", "O", "M", "E", " ", "T", "O", " ",
                  "T", "H", "E", " ", "G", "A", "M", "E", " ", "J", "A", "C", "K">>

\* String(n).padStart(2, '0') for n in 0..99
DIGITS == <<"0", "1", "2", "3", "4", "5", "6", "7", "8", "9">>

PadStart2(n) ==
    IF n < 10 THEN <<"0", DIGITS[n + 1]>>
    ELSE <<DIGITS[(n \div 10) + 1], DIGITS[(n % 10) + 1]>>

\* `${String(hours).padStart(2, '0')}:${String(minutes).padStart(2, '0')}`
FormatTime(hours, minutes) == PadStart2(hours) \o <<":">> \o PadStart2(minutes)

\* an easing that runs past 1 on its way (a back-out curve)
MorphEased_overshoot(f) ==
    LET t == Min(MORPH_FRAMES, f - MORPH_START)
    IN  easeOutCubic(t, MORPH_FRAMES) + t * (MORPH_FRAMES - t) * MORPH_FRAMES

\* numerator over EASE_DEN of easeOutCubic(Math.min(1, (f - MORPH_START) / MORPH_FRAMES))
MorphEased(f) == easeOutCubic(Min(MORPH_FRAMES, f - MORPH_START), MORPH_FRAMES)

\* the interpolation truncated with Math.floor
MorphLerp_floor(src, tgt, e) == MathFloor(src * EASE_DEN + (tgt - src) * e, EASE_DEN)

\* Math.round(src + (tgt - src) * eased) for eased = e / EASE_DEN
MorphLerp(src, tgt, e) == MathRound(src * EASE_DEN + (tgt - src) * e, EASE_DEN)

\* the source of target i (counted from 0): a sun point, or a golden-angle point
MorphSource(i, sunPoints, sunCenter) ==
    IF i < Len(sunPoints)
    THEN [row |-> sunPoints[i + 1].point[1], col |-> sunPoints[i + 1].point[2],
          level |-> sunPoints[i + 1].level]
    ELSE LET dist == ((i * 7) % 7) + 1 IN
         [row |-> sunCenter[1] + GoldenRow(i, dist),
          col |-> sunCenter[2] + GoldenCol(i, dist),
          level |-> 3]

getMorphedPoints(f, sunCenter, targets) ==
    LET eased == MorphEased(f)
        Particle(target, src) ==
            [point |-> <<MorphLerp(src.row, target.point[1], eased),
                         MorphLerp(src.col, target.point[2], eased)>>,
             char |-> IF PastGlyphThreshold(eased) THEN target.char ELSE DOT,
             level |-> src.level]
        Particles(sunPoints) ==
            [k \in 1..Len(targets) |->
                Particle(targets[k], MorphSource(k - 1, sunPoints, sunCenter))]
    IN  Particles(getSunPoints(RISE_FRAMES, sunCenter[1], sunCenter[2]))

----------------------------------------------------------------------------
(* components/Animation.tsx: layout of one render *)

\* the side length of buildSunForFrame(f): 2 * maxVisibleRing + 1
SunSize(f) ==
    LET cappedFrame == Min(f, RISE_FRAMES)
        visible == {i \in 0..MAX_RING : getRingVisibility(i, cappedFrame) > 0}
        maxVisibleRing == IF visible = {} THEN 0 ELSE CHOOSE i \in visible : \A j \in visible : j <= i
    IN  IF maxVisibleRing = 0 THEN 1 ELSE maxVisibleRing * 2 + 1

\* [sunCenterY, sunCenterX] of the component for frame f
SunCenter(f, w, h) ==
    LET renderH == h - 1
        sunH == SunSize(Min(f, RISE_FRAMES))
        sunEndY == MathFloor(renderH - sunH, 2)
        easedProgress == easeOutQuad(Min(f, RISE_FRAMES), RISE_FRAMES)
        quadDen == RISE_FRAMES * RISE_FRAMES
        sunY == Max(sunEndY,
                    MathFloor(renderH * quadDen - (renderH - sunEndY) * easedProgress, quadDen))
    IN  <<sunY + MathFloor(sunH, 2), MathFloor(w, 2)>>

\* cols.reduce((max, c) => Math.max(max, c), 0): the largest of 0 and the columns
MaxCol(cols) ==
    LET candidates == {0} \cup {cols[k] : k \in 1..Len(cols)}
    IN  CHOOSE max \in candidates : \A c \in candidates : c <= max

\* allTargets: the heading and the clock laid out around the centre of a
\* rows x w area
LayoutTargets(w, rows, time) ==
    LET Placed(line1Points, line2Points) ==
        LET line1Width == MaxCol([k \in 1..Len(line1Points) |-> line1Points[k][2]]) + 1
            line2Width == MaxCol([k \in 1..Len(line2Points) |-> line2Points[k].point[2]]) + 1
            textHeight == 5
            segmentHeight == 5
            totalHeight == textHeight + 3 + segmentHeight
            textStartY == MathFloor(rows - totalHeight, 2)
            line1StartX == MathFloor(w - line1Width, 2)
            line2StartX == MathFloor(w - line2Width, 2)
        IN  [k \in 1..Len(line1Points) |->
                [point |-> <<textStartY + line1Points[k][1], line1StartX + line1Points[k][2]>>,
                 char |-> DOT]]
            \o
            [k \in 1..Len(line2Points) |->
                [point |-> <<textStartY + textHeight + 3 + line2Points[k].point[1],
                             line2StartX + line2Points[k].point[2]>>,
                 char |-> line2Points[k].char]]
    IN  Placed(textToPointsBold(WELCOME_TEXT, 0), timeToSegmentPoints(time, 0))

NoCells == [pos \in {} |-> <<>>]

\* the test with the right edge taken as inside
InBounds_rightEdge(point, rows, w) ==
    point[1] >= 0 /\ point[1] < rows /\ point[2] >= 0 /\ point[2] <= w

InBounds(point, rows, w) ==
    point[1] >= 0 /\ point[1] < rows /\ point[2] >= 0 /\ point[2] < w

\* the write loop over the particles of a blank rows x w grid: a particle out
\* of bounds is skipped, and a later write to a cell replaces an earlier one
WriteParticles(particles, rows, w) ==
    LET written == {k \in 1..Len(particles) : InBounds(particles[k].point, rows, w)}
        LastWrite(pos) == LET at == {k \in written : particles[k].point = pos}
                          IN  CHOOSE k \in at : \A j \in at : j <= k
    IN  [pos \in {particles[k].point : k \in written} |-> particles[LastWrite(pos)].char]

\* the morph branch of the component's render
ComponentTargets(w, h, time) == LayoutTargets(w, h - 1, time)

ComponentMorphed(f, w, h, time) ==
    IF f >= MORPH_START
    THEN getMorphedPoints(f, SunCenter(f, w, h), ComponentTargets(w, h, time))
    ELSE <<>>

----------------------------------------------------------------------------
(* render-frames.ts: buildMorphFrame *)

\* the sun points of buildMorphFrame: the rings visible at RISE_FRAMES, no level
RECURSIVE ToolSunPointsFrom(_, _, _)
ToolSunPointsFrom(ringIdx, centerY, centerX) ==
    IF ringIdx > MAX_RING THEN <<>>
    ELSE LET pts == RING_DEFS[ringIdx + 1].points IN
         (IF getRingVisibility(ringIdx, RISE_FRAMES) = 0 THEN <<>>
          ELSE [k \in 1..Len(pts) |-> <<centerY + pts[k][1], centerX + pts[k][2]>>])
            \o ToolSunPointsFrom(ringIdx + 1, centerY, centerX)

ToolTargets(w, h, time) == LayoutTargets(w, h, time)

\* the particles of the "Lerp points" loop of buildMorphFrame
ToolMorphed(f, w, h, time) ==
    LET morphProgress == Min(MORPH_FRAMES, f - MORPH_START)
        eased == easeOutCubic(morphProgress, MORPH_FRAMES)
        sunCenterY == MathFloor(h, 2)
        sunCenterX == MathFloor(w, 2)
        Particle(i, target, sunPoints) ==
            LET dist == ((i * 7) % 10) + 1
                srcRow == IF i < Len(sunPoints) THEN sunPoints[i + 1][1]
                          ELSE sunCenterY + GoldenRow(i, dist)
                srcCol == IF i < Len(sunPoints) THEN sunPoints[i + 1][2]
                          ELSE sunCenterX + GoldenCol(i, dist)
            IN  [point |-> <<MorphLerp(srcRow, target.point[1], eased),
                             MorphLerp(srcCol, target.point[2], eased)>>,
                 char |-> IF PastGlyphThreshold(eased) THEN target.char ELSE DOT]
        Particles(sunPoints, allTargets) ==
            [k \in 1..Len(allTargets) |-> Particle(k - 1, allTargets[k], sunPoints)]
    IN  Particles(ToolSunPointsFrom(0, sunCenterY, sunCenterX), ToolTargets(w, h, time))

\* the cells of the grid of buildMorphFrame that hold a particle
buildMorphFrame(f, w, h, time) ==
    WriteParticles(ToolMorphed(f, w, h, time), h, w)

----------------------------------------------------------------------------
(* animation-core.ts: ray glyphs, ring colors and the sun art *)

\* RAY_CHARS as the file stores them
RAY_CHARS ==
    [H  |-> <<"u0442", "u0424", "u0410">>,
     V  |-> <<"u0442", "u0424", "u0412">>,
     D1 |-> <<"u0442", "u0425", "u2593">>,
     D2 |-> <<"u0442", "u0425", "u2592">>]

getRayChar(dr, dc) ==
    IF dr = 0 THEN RAY_CHARS.H
    ELSE IF dc = 0 THEN RAY_CHARS.V
    ELSE IF dr = dc THEN RAY_CHARS.D1
    ELSE RAY_CHARS.D2

\* pulseIntensity * 0.6 for the intensity pulse / PULSE_DEN is pulse * 3 over
\* 5 * PULSE_DEN
getRingColor(ring, f, cols) ==
    LET pulse == getPulseIntensity(ring, f)
        baseColor == IF ring <= 1 THEN cols.core
                     ELSE IF ring <= 4 THEN cols.inner ELSE cols.outer
    IN  IF pulse > 0 THEN lerpColor(baseColor, cols.glow, pulse * 3, 5 * PULSE_DEN)
        ELSE baseColor

\* the dim dot literal of buildSunForFrame
CORE_DIM_DOT == <<"u252C", "u2556">>

\* row.join(''): the strings of the cells one after the other
RECURSIVE JoinFrom(_, _)
JoinFrom(cells, k) ==
    IF k > Len(cells) THEN <<>> ELSE cells[k] \o JoinFrom(cells, k + 1)

Join(cells) == JoinFrom(cells, 1)

\* an array slot past the filled length that no assignment has set
EMPTY_SLOT == <<"empty">>

\* a blank rows x w grid with the cells of writes[k].point set to
\* writes[k].cell in the order of writes; the guard InBounds decides which
\* writes are made, and an assignment past the end of a row lengthens the row
WriteCells(writes, rows, w, blank) ==
    LET written == {k \in 1..Len(writes) : InBounds(writes[k].point, rows, w)}
        RowCells(r) ==
            LET inRow == {k \in written : writes[k].point[1] = r - 1}
                cols == {writes[k].point[2] : k \in inRow}
                LastWrite(col) == LET at == {k \in inRow : writes[k].point[2] = col}
                                  IN  CHOOSE k \in at : \A j \in at : j <= k
                ends == {w} \cup {col + 1 : col \in cols}
                length == CHOOSE n \in ends : \A m \in ends : m <= n
            IN  [c \in 1..length |->
                    IF c - 1 \in cols THEN writes[LastWrite(c - 1)].cell
                    ELSE IF c <= w THEN blank ELSE EMPTY_SLOT]
    IN  [r \in 1..rows |-> RowCells(r)]

\* the writes of buildSunForFrame for the rings ringIdx..maxVisibleRing
RECURSIVE SunArtWritesFrom(_, _, _, _)
SunArtWritesFrom(ringIdx, maxVisibleRing, cappedFrame, center) ==
    IF ringIdx > maxVisibleRing THEN <<>>
    ELSE LET ringDef == RING_DEFS[ringIdx + 1]
             vis == getRingVisibility(ringIdx, cappedFrame)
             pts == ringDef.points
             CellOf(k) == IF ringDef.isRay
                          THEN IF 2 * vis > RING_FADE_DURATION
                               THEN getRayChar(pts[k][1], pts[k][2])
                               ELSE CORE_DIM_DOT
                          ELSE getRingChar(ringIdx, cappedFrame)
             here == IF vis = 0 THEN <<>>
                     ELSE SelectSeq([k \in 1..Len(pts) |->
                                       [point |-> <<center + pts[k][1], center + pts[k][2]>>,
                                        cell |-> CellOf(k)]],
                                    LAMBDA wr : ringDef.isRay \/ wr.cell # <<" ">>)
         IN  here \o SunArtWritesFrom(ringIdx + 1, maxVisibleRing, cappedFrame, center)

buildSunForFrame(f) ==
    LET cappedFrame == Min(f, RISE_FRAMES)
        Art(size) ==
            LET maxVisibleRing == (size - 1) \div 2
                center == MathFloor(size, 2)
                Joined(rows) == [r \in 1..size |-> Join(rows[r])]
            IN  Joined(WriteCells(SunArtWritesFrom(0, maxVisibleRing, cappedFrame, center),
                                  size, size, <<" ">>))
    IN  Art(SunSize(f))

----------------------------------------------------------------------------
(* components/Animation.tsx: the colors and the frame buffer of one render *)

COLOR_TRANSITION_START == 100
COLOR_TRANSITION_END == RISE_FRAMES

BLACK == <<"#", "0", "0", "0", "0", "0", "0">>

\* the neonGreen object
NEON_GREEN ==
    [sky   |-> BLACK,
     core  |-> <<"#", "0", "0", "f", "f", "8", "8">>,
     inner |-> <<"#", "0", "0", "d", "d", "6", "6">>,
     outer |-> <<"#", "0", "0", "b", "b", "4", "4">>,
     glow  |-> <<"#", "4", "4", "f", "f", "a", "a">>]

\* n.toString(16) for an integer n
RECURSIVE ToString16(_)
ToString16(n) ==
    IF n < 0 THEN <<"-">> \o ToString16(0 - n)
    ELSE IF n < 16 THEN <<HexDigits[n + 1]>>
    ELSE ToString16(n \div 16) \o <<HexDigits[(n % 16) + 1]>>

\* str.padStart(2, '0')
PadStartZero2(str) ==
    IF Len(str) >= 2 THEN str
    ELSE IF Len(str) = 1 THEN <<"0">> \o str ELSE <<"0", "0">>

\* blendColors(c1, c2, tn / td): rounded channels, written without a clamp
blendColors(c1, c2, tn, td) ==
    LET Blend(rgb1, rgb2) ==
            LET Channel(k) == MathRound(rgb1[k] * td + (rgb2[k] - rgb1[k]) * tn, td)
            IN  <<"#">> \o PadStartZero2(ToString16(Channel(1)))
                        \o PadStartZero2(ToString16(Channel(2)))
                        \o PadStartZero2(ToString16(Channel(3)))
    IN  Blend(hexToRgb(c1), hexToRgb(c2))

\* the colors with the sky taken from the sunrise palette like the other four
ComponentColors_paletteSky(f) ==
    LET span == COLOR_TRANSITION_END - COLOR_TRANSITION_START
        colorTransition == IF f >= COLOR_TRANSITION_START
                           THEN Min(span, f - COLOR_TRANSITION_START) ELSE 0
        Blended(sunriseColors) ==
            [sky   |-> blendColors(sunriseColors.sky, NEON_GREEN.sky, colorTransition, span),
             core  |-> blendColors(sunriseColors.core, NEON_GREEN.core, colorTransition, span),
             inner |-> blendColors(sunriseColors.inner, NEON_GREEN.inner, colorTransition, span),
             outer |-> blendColors(sunriseColors.outer, NEON_GREEN.outer, colorTransition, span),
             glow  |-> blendColors(sunriseColors.glow, NEON_GREEN.glow, colorTransition, span)]
    IN  Blended(getColors(Min(f, COLOR_TRANSITION_START), "blood_red"))

\* the colors with the color transition left without its Math.min(1, ..)
ComponentColors_unclamped(f) ==
    LET span == COLOR_TRANSITION_END - COLOR_TRANSITION_START
        colorTransition == IF f >= COLOR_TRANSITION_START
                           THEN f - COLOR_TRANSITION_START ELSE 0
        Blended(sunriseColors) ==
            [sky   |-> BLACK,
             core  |-> blendColors(sunriseColors.core, NEON_GREEN.core, colorTransition, span),
             inner |-> blendColors(sunriseColors.inner, NEON_GREEN.inner, colorTransition, span),
             outer |-> blendColors(sunriseColors.outer, NEON_GREEN.outer, colorTransition, span),
             glow  |-> blendColors(sunriseColors.glow, NEON_GREEN.glow, colorTransition, span)]
    IN  Blended(getColors(Min(f, COLOR_TRANSITION_START), "blood_red"))

\* the colors object of the render of frame f; the theme prop is not read
ComponentColors(f) ==
    LET span == COLOR_TRANSITION_END - COLOR_TRANSITION_START
        colorTransition == IF f >= COLOR_TRANSITION_START
                           THEN Min(span, f - COLOR_TRANSITION_START) ELSE 0
        Blended(sunriseColors) ==
            [sky   |-> BLACK,
             core  |-> blendColors(sunriseColors.core, NEON_GREEN.core, colorTransition, span),
             inner |-> blendColors(sunriseColors.inner, NEON_GREEN.inner, colorTransition, span),
             outer |-> blendColors(sunriseColors.outer, NEON_GREEN.outer, colorTransition, span),
             glow  |-> blendColors(sunriseColors.glow, NEON_GREEN.glow, colorTransition, span)]
    IN  Blended(getColors(Min(f, COLOR_TRANSITION_START), "blood_red"))

\* the dim dot literal of the component (U+00B7)
DIM_DOT == <<"u00B7">>

\* the writes of the rise branch for the rings ringIdx..MAX_RING
RECURSIVE RiseWritesFrom(_, _, _, _)
RiseWritesFrom(ringIdx, f, sunCenter, cols) ==
    IF ringIdx > MAX_RING THEN <<>>
    ELSE LET ringDef == RING_DEFS[ringIdx + 1]
             vis == getRingVisibility(ringIdx, f)
             ringColor == getRingColor(ringIdx, f, cols)
             pts == ringDef.points
             CharOf(k) == IF ringDef.isRay
                          THEN IF 2 * vis > RING_FADE_DURATION
                               THEN getRayChar(pts[k][1], pts[k][2])
                               ELSE DIM_DOT
                          ELSE getRingChar(ringIdx, f)
             here == IF vis = 0 THEN <<>>
                     ELSE SelectSeq([k \in 1..Len(pts) |->
                                       [point |-> <<sunCenter[1] + pts[k][1],
                                                    sunCenter[2] + pts[k][2]>>,
                                        cell |-> [char |-> CharOf(k), color |-> ringColor]]],
                                    LAMBDA wr : ringDef.isRay \/ wr.cell.char # <<" ">>)
         IN  here \o RiseWritesFrom(ringIdx + 1, f, sunCenter, cols)

\* the writes of the morph branch: one per particle of getMorphedPoints
\* the core color from 70% of the morph on (>= for >)
MorphWrites_atThreshold(f, w, h, time, cols) ==
    LET color == IF 10 * (f - MORPH_START) >= 7 * MORPH_FRAMES THEN cols.core ELSE cols.glow
        Colored(particles) ==
            [k \in 1..Len(particles) |->
                [point |-> particles[k].point,
                 cell |-> [char |-> particles[k].char, color |-> color]]]
    IN  Colored(ComponentMorphed(f, w, h, time))

MorphWrites(f, w, h, time, cols) ==
    LET color == IF 10 * (f - MORPH_START) > 7 * MORPH_FRAMES THEN cols.core ELSE cols.glow
        Colored(particles) ==
            [k \in 1..Len(particles) |->
                [point |-> particles[k].point,
                 cell |-> [char |-> particles[k].char, color |-> color]]]
    IN  Colored(ComponentMorphed(f, w, h, time))

\* the cutover taken one frame late
PhaseOf_lateCutover(f) == IF f > MORPH_START THEN "morph" ELSE "rise"

\* the branch of the render that runs for frame f
PhaseOf(f) == IF f >= MORPH_START THEN "morph" ELSE "rise"

\* the cell writes of the render of frame f, in their order
ComponentWrites(f, w, h, time) ==
    LET cols == ComponentColors(f) IN
    IF PhaseOf(f) = "morph" THEN MorphWrites(f, w, h, time, cols)
    ELSE RiseWritesFrom(0, f, SunCenter(f, w, h), cols)

\* the frame buffer built with one row for every row of the terminal
ComponentGrid_allRows(f, w, h, time) ==
    WriteCells(ComponentWrites(f, w, h, time), h, w,
               [char |-> <<" ">>, color |-> ComponentColors(f).sky])

\* the frame buffer of the render: renderH rows of width cells
ComponentGrid(f, w, h, time) ==
    WriteCells(ComponentWrites(f, w, h, time), h - 1, w,
               [char |-> <<" ">>, color |-> ComponentColors(f).sky])

----------------------------------------------------------------------------
(* render-frames.ts: the art of getFrameMetadata *)

\* grid.map(row => row.join('')) of buildMorphFrame
MorphFrameArt(f, w, h, time) ==
    LET Cells(particles) ==
            [k \in 1..Len(particles) |->
                [point |-> particles[k].point, cell |-> particles[k].char]]
        Joined(rows) == [r \in 1..h |-> Join(rows[r])]
    IN  Joined(WriteCells(Cells(ToolMorphed(f, w, h, time)), h, w, <<" ">>))

\* getFrameMetadata(f, w, h).phase
ToolPhaseOf(f) == IF f >= MORPH_START THEN "morph" ELSE "rise"

\* getFrameMetadata(f, w, h).art, with the clock reading time
FrameArt(f, w, h, time) ==
    IF ToolPhaseOf(f) = "morph" THEN MorphFrameArt(f, w, h, time) ELSE buildSunForFrame(f)

----------------------------------------------------------------------------
(* App.tsx: the settings menu *)

PROFILES ==
    [standard |-> [name |-> "Standard", duration |-> 30, endTemp |-> 5000],
     quick    |-> [name |-> "Quick", duration |-> 20, endTemp |-> 4000],
     gentle   |-> [name |-> "Gentle", duration |-> 45, endTemp |-> 4000],
     custom   |-> [name |-> "Custom", duration |-> 30, endTemp |-> 5000]]

PROFILE_ORDER == <<"standard", "quick", "gentle", "custom">>

DURATION_MIN == 10
DURATION_MAX == 60

TEMP_OPTIONS == <<2500, 3000, 4000, 5000, 6000, 6500, 7500, 9000>>

DEFAULT_SETTINGS ==
    [profile |-> "standard",
     wakeTime |-> [hour |-> 7, minute |-> 0],
     duration |-> 30,
     endTemp |-> 5000]

\* `${hour.toString().padStart(2, '0')}:${minute.toString().padStart(2, '0')}`
formatTime(hour, minute) ==
    LET RECURSIVE Decimal(_)
        Decimal(n) == IF n < 10 THEN <<DIGITS[n + 1]>>
                      ELSE Decimal(n \div 10) \o <<DIGITS[(n % 10) + 1]>>
        NumberToString(n) == IF n < 0 THEN <<"-">> \o Decimal(0 - n) ELSE Decimal(n)
    IN  PadStartZero2(NumberToString(hour)) \o <<":">> \o PadStartZero2(NumberToString(minute))

calculateStartTime(wakeHour, wakeMinute, duration) ==
    LET RECURSIVE Borrow(_, _)
        Borrow(startHour, startMinute) ==
            IF startMinute < 0 THEN Borrow(startHour - 1, startMinute + 60)
            ELSE <<startHour, startMinute>>
        Formatted(hm) == formatTime(IF hm[1] < 0 THEN hm[1] + 24 ELSE hm[1], hm[2])
    IN  Formatted(Borrow(wakeHour, wakeMinute - duration))

applyProfile(prev, profileKey) ==
    IF profileKey # "custom"
    THEN [prev EXCEPT !.profile = profileKey,
                      !.duration = PROFILES[profileKey].duration,
                      !.endTemp = PROFILES[profileKey].endTemp]
    ELSE [prev EXCEPT !.profile = "custom"]

\* settings.profile is the profile of the last render; every key press is
\* handled after the render of the press before it
setCustomProfile(prev) ==
    IF prev.profile # "custom" THEN [prev EXCEPT !.profile = "custom"] ELSE prev

cycleProfile(prev, direction) ==
    LET currentIndex == (CHOOSE i \in 1..Len(PROFILE_ORDER) : PROFILE_ORDER[i] = prev.profile) - 1
        newIndex == (currentIndex + direction + Len(PROFILE_ORDER)) % Len(PROFILE_ORDER)
    IN  applyProfile(prev, PROFILE_ORDER[newIndex + 1])

adjustTime(prev, delta) ==
    LET RECURSIVE Carry(_, _)
        Carry(newHour, newMinute) ==
            IF newMinute >= 60 THEN Carry(newHour + 1, newMinute - 60)
            ELSE <<newHour, newMinute>>
        RECURSIVE Borrow(_, _)
        Borrow(newHour, newMinute) ==
            IF newMinute < 0 THEN Borrow(newHour - 1, newMinute + 60)
            ELSE <<newHour, newMinute>>
        Wrapped(newHour) == IF newHour >= 24 THEN newHour - 24
                            ELSE IF newHour < 0 THEN newHour + 24 ELSE newHour
        After(hm) == [prev EXCEPT !.wakeTime = [hour |-> Wrapped(hm[1]), minute |-> hm[2]]]
        Loops(hm) == After(Borrow(hm[1], hm[2]))
    IN  Loops(Carry(prev.wakeTime.hour, prev.wakeTime.minute + delta))

adjustDuration(prev, delta) ==
    setCustomProfile([prev EXCEPT !.duration =
                         Max(DURATION_MIN, Min(DURATION_MAX, prev.duration + delta))])

\* the index taken modulo the number of options (a wrap for the two ifs)
adjustTemp_wrap(prev, direction) ==
    LET currentIndex == (CHOOSE i \in 1..Len(TEMP_OPTIONS) : TEMP_OPTIONS[i] = prev.endTemp) - 1
        newIndex == (currentIndex + direction) % Len(TEMP_OPTIONS)
    IN  setCustomProfile([prev EXCEPT !.endTemp = TEMP_OPTIONS[newIndex + 1]])

adjustTemp(prev, direction) ==
    LET currentIndex == (CHOOSE i \in 1..Len(TEMP_OPTIONS) : TEMP_OPTIONS[i] = prev.endTemp) - 1
        newIndex == Min(Len(TEMP_OPTIONS) - 1, Max(0, currentIndex + direction))
    IN  setCustomProfile([prev EXCEPT !.endTemp = TEMP_OPTIONS[newIndex + 1]])

----------------------------------------------------------------------------
(* The rise engine evaluated frame after frame for one ring *)

\* every result of the rise engine for one (ring, frame)
RiseResult(ring, f) ==
    [visibility |-> getRingVisibility(ring, f),
     pulseIntensity |-> getPulseIntensity(ring, f),
     ringLevel |-> RingLevel(ring, f),
     ringChar |-> getRingChar(ring, f),
     sunLevels |-> SunLevelsOfRing(ring, f)]

\* the results over the bounded inputs, evaluated once
RiseResults == [r \in 0..MaxRingIndex, f \in 0..MaxFrame |-> RiseResult(r, f)]

RiseEval(ring, f) ==
    LET res == RiseResults[ring, f] IN
    /\ ringIndex' = ring
    /\ frame' = f
    /\ visibility' = res.visibility
    /\ pulseIntensity' = res.pulseIntensity
    /\ ringLevel' = res.ringLevel
    /\ ringChar' = res.ringChar
    /\ sunLevels' = res.sunLevels

\* the palette is not evaluated while the rise engine is examined
PaletteIdle ==
    /\ progress = 0
    /\ theme = THEME_ORDER[1]
    /\ colors = getColors(0, THEME_ORDER[1])

\* no morph frame is rendered while another part is examined
MorphIdle ==
    /\ width = 80
    /\ height = 24
    /\ currentTime = FormatTime(0, 0)
    /\ morphed = <<>>
    /\ morphCells = NoCells
    /\ toolMorphed = <<>>
    /\ toolCells = NoCells

\* no frame buffer is built while another part is examined
CompIdle ==
    /\ grid = <<>>
    /\ phase = "rise"
    /\ cellWrites = <<>>

\* the offline renderer is not run while another part is examined
ToolIdle ==
    /\ toolFrame = 0
    /\ now = FormatTime(0, 0)
    /\ toolArt = <<>>
    /\ toolPhase = "rise"

\* no text is laid out while another part is examined
FontIdle ==
    /\ fontText = <<>>
    /\ boldPoints = <<>>
    /\ segmentPoints = <<>>

\* no component takes input while another part is examined
InputIdle ==
    /\ component = "current"
    /\ mounted = FALSE
    /\ autoReturn = FALSE
    /\ completedRef = FALSE
    /\ escapeCount = 0
    /\ escapeTimerRef = FALSE
    /\ autoReturnTimerRef = FALSE
    /\ closure = [escapeCount |-> 0, done |-> FALSE]
    /\ stale = {}
    /\ keyCount = 0
    /\ completions = <<>>
    /\ lastKey = "none"
    /\ pendingAlarmRef = FALSE
    /\ alarmStarts = 0

\* the menu as it is mounted, before any key
MenuIdle ==
    /\ selectedField = 0
    /\ settings = DEFAULT_SETTINGS
    /\ startTime = calculateStartTime(7, 0, 30)
    /\ menuKey = "none"
    /\ prevField = 0

RiseInit ==
    /\ PaletteIdle
    /\ MorphIdle
    /\ CompIdle
    /\ ToolIdle
    /\ FontIdle
    /\ InputIdle
    /\ MenuIdle
    /\ ringIndex \in 0..MaxRingIndex
    /\ frame = 0
    /\ visibility = RiseResults[ringIndex, 0].visibility
    /\ pulseIntensity = RiseResults[ringIndex, 0].pulseIntensity
    /\ ringLevel = RiseResults[ringIndex, 0].ringLevel
    /\ ringChar = RiseResults[ringIndex, 0].ringChar
    /\ sunLevels = RiseResults[ringIndex, 0].sunLevels

\* the frame timer: setFrame(f => f < TOTAL_FRAMES ? f + 1 : f), then a render
RiseTick ==
    /\ frame < TOTAL_FRAMES
    /\ RiseEval(ringIndex, frame + 1)

\* the offline renderer walks its frame list (--range, --all, the key frames)
\* upwards, leaving out up to MaxSkip - 1 frames, and evaluates each requested frame
RiseRenderFrame ==
    \E f \in (frame + 2)..Min(MaxFrame, frame + MaxSkip) : RiseEval(ringIndex, f)

\* the per-ring loops move on to another ring of the same frame
RiseSelectRing ==
    \E r \in 0..MaxRingIndex : r # ringIndex /\ RiseEval(r, frame)

RiseNext ==
    /\ RiseTick \/ RiseRenderFrame \/ RiseSelectRing
    /\ UNCHANGED <<paletteVars, morphVars, compVars, toolVars, fontVars, inputVars, menuVars>>

SpecRise == RiseInit /\ [][RiseNext]_vars

----------------------------------------------------------------------------
(* The palette interpolator evaluated over progress values and themes *)

ProgressInputs == (0 - MaxOvershoot)..(PROGRESS_DEN + MaxOvershoot)

Themes == {THEME_ORDER[k] : k \in 1..Len(THEME_ORDER)}

\* the rise engine is not evaluated while the palette is examined
RiseIdle ==
    /\ ringIndex = 0
    /\ frame = 0
    /\ visibility = RiseResults[0, 0].visibility
    /\ pulseIntensity = RiseResults[0, 0].pulseIntensity
    /\ ringLevel = RiseResults[0, 0].ringLevel
    /\ ringChar = RiseResults[0, 0].ringChar
    /\ sunLevels = RiseResults[0, 0].sunLevels

PaletteEval(p, th) ==
    /\ progress' = p
    /\ theme' = th
    /\ colors' = getColors(p, th)

PaletteInit ==
    /\ RiseIdle
    /\ MorphIdle
    /\ CompIdle
    /\ ToolIdle
    /\ FontIdle
    /\ InputIdle
    /\ MenuIdle
    /\ progress \in ProgressInputs
    /\ theme \in Themes
    /\ colors = getColors(progress, theme)

\* the caller moves on to the progress of the next frame
PaletteAdvance ==
    /\ progress + 1 \in ProgressInputs
    /\ PaletteEval(progress + 1, theme)

\* the caller switches to another theme (--theme NAME)
PaletteSetTheme ==
    \E th \in Themes : th # theme /\ PaletteEval(progress, th)

PaletteNext ==
    /\ PaletteAdvance \/ PaletteSetTheme
    /\ UNCHANGED <<riseVars, morphVars, compVars, toolVars, fontVars, inputVars, menuVars>>

SpecPalette == PaletteInit /\ [][PaletteNext]_vars

----------------------------------------------------------------------------
(* The morph phase rendered frame after frame, by the component and by
   render-frames.ts, for one terminal size and the clock readings *)

\* [width, height]: the default terminal of render-frames.ts and a small one
ScreenSizes == {<<80, 24>>, <<25, 9>>}

\* [hours, minutes] the clock may read
ClockReadings == {<<0, 40>>, <<12, 34>>, <<23, 59>>}

MorphRender(f, w, h, time) ==
    /\ morphed' = ComponentMorphed(f, w, h, time)
    /\ morphCells' = WriteParticles(morphed', h - 1, w)
    /\ toolMorphed' = IF f >= MORPH_START THEN ToolMorphed(f, w, h, time) ELSE <<>>
    /\ toolCells' = WriteParticles(toolMorphed', h, w)

MorphInit ==
    /\ PaletteIdle
    /\ RiseIdle
    /\ CompIdle
    /\ ToolIdle
    /\ FontIdle
    /\ InputIdle
    /\ MenuIdle
    /\ \E size \in ScreenSizes : width = size[1] /\ height = size[2]
    /\ \E reading \in ClockReadings : currentTime = FormatTime(reading[1], reading[2])
    /\ morphed = <<>>
    /\ morphCells = NoCells
    /\ toolMorphed = <<>>
    /\ toolCells = NoCells

\* the frame timer: setFrame(f => f < TOTAL_FRAMES ? f + 1 : f), then a render
MorphTick ==
    /\ frame < TOTAL_FRAMES
    /\ RiseEval(ringIndex, frame + 1)
    /\ MorphRender(frame + 1, width, height, currentTime)
    /\ UNCHANGED <<width, height, currentTime>>

\* the live clock after the animation: setCurrentTime(..), then a render
MorphUpdateTime ==
    /\ frame >= TOTAL_FRAMES
    /\ \E reading \in ClockReadings :
          /\ FormatTime(reading[1], reading[2]) # currentTime
          /\ currentTime' = FormatTime(reading[1], reading[2])
          /\ MorphRender(frame, width, height, FormatTime(reading[1], reading[2]))
    /\ UNCHANGED <<riseVars, width, height>>

MorphNext ==
    /\ MorphTick \/ MorphUpdateTime
    /\ UNCHANGED <<paletteVars, compVars, toolVars, fontVars, inputVars, menuVars>>

SpecMorph == MorphInit /\ [][MorphNext]_vars

----------------------------------------------------------------------------
(* The compositor rendered frame after frame: the frame buffer of the
   component, and getFrameMetadata run for the same frame, size and clock
   reading *)

\* no particle list is kept apart from the frame buffer
ParticlesIdle ==
    /\ morphed = <<>>
    /\ morphCells = NoCells
    /\ toolMorphed = <<>>
    /\ toolCells = NoCells

CompRender(f, w, h, time) ==
    /\ grid' = ComponentGrid(f, w, h, time)
    /\ phase' = PhaseOf(f)
    /\ cellWrites' = ComponentWrites(f, w, h, time)
    /\ toolFrame' = f
    /\ now' = time
    /\ toolArt' = FrameArt(f, w, h, time)
    /\ toolPhase' = ToolPhaseOf(f)

CompInit ==
    /\ PaletteIdle
    /\ RiseIdle
    /\ ParticlesIdle
    /\ FontIdle
    /\ InputIdle
    /\ MenuIdle
    /\ \E size \in ScreenSizes : width = size[1] /\ height = size[2]
    /\ \E reading \in ClockReadings : currentTime = FormatTime(reading[1], reading[2])
    /\ grid = ComponentGrid(0, width, height, currentTime)
    /\ phase = PhaseOf(0)
    /\ cellWrites = ComponentWrites(0, width, height, currentTime)
    /\ toolFrame = 0
    /\ now = currentTime
    /\ toolArt = FrameArt(0, width, height, currentTime)
    /\ toolPhase = ToolPhaseOf(0)

\* the frame timer: setFrame(f => f < TOTAL_FRAMES ? f + 1 : f), then a render
CompTick ==
    /\ frame < TOTAL_FRAMES
    /\ RiseEval(ringIndex, frame + 1)
    /\ CompRender(frame + 1, width, height, currentTime)
    /\ UNCHANGED <<width, height, currentTime, morphed, morphCells, toolMorphed, toolCells>>

\* the live clock after the animation: setCurrentTime(..), then a render
CompUpdateTime ==
    /\ frame >= TOTAL_FRAMES
    /\ \E reading \in ClockReadings :
          /\ FormatTime(reading[1], reading[2]) # currentTime
          /\ currentTime' = FormatTime(reading[1], reading[2])
          /\ CompRender(frame, width, height, FormatTime(reading[1], reading[2]))
    /\ UNCHANGED <<riseVars, width, height, morphed, morphCells, toolMorphed, toolCells>>

CompNext ==
    /\ CompTick \/ CompUpdateTime
    /\ UNCHANGED <<paletteVars, fontVars, inputVars, menuVars>>

SpecComposite == CompInit /\ [][CompNext]_vars

----------------------------------------------------------------------------
(* render-frames.ts run over a list of frames: getFrameMetadata is handed
   one frame after the other and reads the wall clock in each morph frame *)

ToolFrames == (0 - MaxUnder)..MaxFrame

ClockTimes == {FormatTime(reading[1], reading[2]) : reading \in ClockReadings}

\* the art over the bounded inputs, evaluated once
ToolArts ==
    [f \in ToolFrames, size \in ScreenSizes, time \in ClockTimes |->
        FrameArt(f, size[1], size[2], time)]

\* the component is not mounted while the offline renderer is examined
ComponentIdle ==
    /\ currentTime = FormatTime(0, 0)
    /\ ParticlesIdle
    /\ CompIdle

ToolEval(f, time) ==
    /\ toolFrame' = f
    /\ now' = time
    /\ toolArt' = ToolArts[f, <<width, height>>, time]
    /\ toolPhase' = ToolPhaseOf(f)

ToolInit ==
    /\ PaletteIdle
    /\ RiseIdle
    /\ ComponentIdle
    /\ FontIdle
    /\ InputIdle
    /\ MenuIdle
    /\ \E size \in ScreenSizes : width = size[1] /\ height = size[2]
    /\ toolFrame = 0
    /\ now \in ClockTimes
    /\ toolArt = ToolArts[0, <<width, height>>, now]
    /\ toolPhase = ToolPhaseOf(0)

\* the loop over the frame list moves on to the next frame (--all, --range)
ToolNextFrame ==
    /\ toolFrame + 1 \in ToolFrames
    /\ ToolEval(toolFrame + 1, now)

\* the frame list names another frame, in any order (--frame N --frame M)
ToolOtherFrame ==
    \E f \in ToolFrames :
        /\ f # toolFrame
        /\ f # toolFrame + 1
        /\ Abs(f - toolFrame) <= MaxSkip
        /\ ToolEval(f, now)

\* getFrameMetadata is called again for the same frame (--jsonl --save calls
\* it once to print and once to save) after the clock has moved on
ToolSameFrameLater ==
    \E time \in ClockTimes :
        /\ time # now
        /\ ToolEval(toolFrame, time)

ToolNext ==
    /\ ToolNextFrame \/ ToolOtherFrame \/ ToolSameFrameLater
    /\ UNCHANGED <<riseVars, paletteVars, morphVars, compVars, fontVars, inputVars, menuVars>>

SpecTool == ToolInit /\ [][ToolNext]_vars

----------------------------------------------------------------------------
(* textToPointsBold and timeToSegmentPoints over the strings a caller can
   hand them, typed one character after the other *)

MaxLen == 3

\* characters of both tables, of one table only, and of neither
FontChars == {"W", "k", "1", "4", ":", " ", "?", "u00E9"}

\* the other parts are not evaluated while the fonts are examined
LayoutIdle ==
    /\ PaletteIdle
    /\ RiseIdle
    /\ MorphIdle
    /\ CompIdle
    /\ ToolIdle

FontEval(t) ==
    /\ fontText' = t
    /\ boldPoints' = textToPointsBold(t, 0)
    /\ segmentPoints' = timeToSegmentPoints(t, 0)

FontInit ==
    /\ LayoutIdle
    /\ InputIdle
    /\ MenuIdle
    /\ fontText = <<>>
    /\ boldPoints = textToPointsBold(<<>>, 0)
    /\ segmentPoints = timeToSegmentPoints(<<>>, 0)

\* the caller's string grows by one character
FontType ==
    /\ Len(fontText) < MaxLen
    /\ \E ch \in FontChars : FontEval(Append(fontText, ch))

FontNext ==
    /\ FontType
    /\ UNCHANGED <<riseVars, paletteVars, morphVars, compVars, toolVars, inputVars, menuVars>>

SpecFont == FontInit /\ [][FontNext]_vars

----------------------------------------------------------------------------
(* The Animation component under its timers and key presses: the frame
   interval, the commits of React, the handler of useInput, the escape reset
   timeout and the auto-return timeout *)

MaxKeys == 3

\* const TOTAL_FRAMES = 120 of the legacy component
LEGACY_TOTAL_FRAMES == 120

TotalFramesOf(c) == IF c = "legacy" THEN LEGACY_TOTAL_FRAMES ELSE TOTAL_FRAMES

\* the argument onComplete is called with: onComplete(true), onComplete(false),
\* and onComplete() in the legacy component
OnCompleteArg(c, cancelled) ==
    IF c = "legacy" THEN "undefined" ELSE IF cancelled THEN "true" ELSE "false"

\* the handler without its first line
InputIgnored_never == FALSE

\* if (completedRef.current) return;
InputIgnored == completedRef

\* setState(value): the state is stale until the next commit when it changes
MarkStale(name, changed) == IF changed THEN stale \cup {name} ELSE stale

\* handleAnimationComplete(cancelled) of App, called as onComplete(arg):
\* startAlarm() when an alarm is pending and the argument is not truthy
HandleAnimationComplete(arg) ==
    /\ alarmStarts' = IF pendingAlarmRef /\ arg # "true" THEN alarmStarts + 1 ELSE alarmStarts
    /\ pendingAlarmRef' = FALSE

\* the other parts are not evaluated while the input is examined; frame is the
\* component's frame state. App has mounted the component on A (preview:
\* autoReturn) or on Enter (confirm: pendingAlarmRef.current = true)
InputInit ==
    /\ LayoutIdle
    /\ FontIdle
    /\ MenuIdle
    /\ component \in {"current", "legacy"}
    /\ mounted = TRUE
    /\ autoReturn \in BOOLEAN
    /\ completedRef = FALSE
    /\ escapeCount = 0
    /\ escapeTimerRef = FALSE
    /\ autoReturnTimerRef = FALSE
    /\ closure = [escapeCount |-> 0, done |-> FALSE]
    /\ stale = {}
    /\ keyCount = 0
    /\ completions = <<>>
    /\ lastKey = "none"
    /\ pendingAlarmRef = ~autoReturn
    /\ alarmStarts = 0

\* the counter started again from 0 at the last frame
InputTick_wrap ==
    /\ mounted
    /\ frame' = IF frame < TotalFramesOf(component) THEN frame + 1 ELSE 0
    /\ stale' = MarkStale("frame", TRUE)
    /\ UNCHANGED <<component, mounted, autoReturn, completedRef, escapeCount, escapeTimerRef,
                   autoReturnTimerRef, closure, keyCount, completions, lastKey,
                   pendingAlarmRef, alarmStarts>>

\* setInterval: setFrame(f => (f < TOTAL_FRAMES ? f + 1 : f))
InputTick ==
    /\ mounted
    /\ frame < TotalFramesOf(component)
    /\ frame' = frame + 1
    /\ stale' = MarkStale("frame", TRUE)
    /\ UNCHANGED <<component, mounted, autoReturn, completedRef, escapeCount, escapeTimerRef,
                   autoReturnTimerRef, closure, keyCount, completions, lastKey,
                   pendingAlarmRef, alarmStarts>>

\* the auto-return effect run again on every commit: its cleanup clears the
\* pending timeout, and completedRef keeps the effect from setting a new one
InputCommit_rerun ==
    /\ mounted
    /\ stale # {}
    /\ stale' = {}
    /\ closure' = [escapeCount |-> escapeCount, done |-> frame >= TotalFramesOf(component)]
    /\ IF frame >= TotalFramesOf(component) /\ autoReturn /\ ~completedRef
       THEN /\ completedRef' = TRUE
            /\ autoReturnTimerRef' = TRUE
       ELSE /\ autoReturnTimerRef' = FALSE
            /\ UNCHANGED completedRef
    /\ UNCHANGED <<frame, component, mounted, autoReturn, escapeCount, escapeTimerRef,
                   keyCount, completions, lastKey, pendingAlarmRef, alarmStarts>>

\* a render is committed: useInput gets the handler of this render, and the
\* auto-return effect runs when frame has changed
InputCommit ==
    /\ mounted
    /\ stale # {}
    /\ stale' = {}
    /\ closure' = [escapeCount |-> escapeCount, done |-> frame >= TotalFramesOf(component)]
    /\ IF "frame" \in stale /\ frame >= TotalFramesOf(component) /\ autoReturn /\ ~completedRef
       THEN /\ completedRef' = TRUE
            /\ autoReturnTimerRef' = TRUE
       ELSE UNCHANGED <<completedRef, autoReturnTimerRef>>
    /\ UNCHANGED <<frame, component, mounted, autoReturn, escapeCount, escapeTimerRef,
                   keyCount, completions, lastKey, pendingAlarmRef, alarmStarts>>

\* a key press reaches the handler of useInput
KeyDelivered(key) ==
    /\ mounted
    /\ keyCount < MaxKeys
    /\ keyCount' = keyCount + 1
    /\ lastKey' = key
    /\ UNCHANGED <<frame, component, mounted, autoReturn, closure>>

\* completedRef.current = true; clearTimeout(autoReturnTimerRef.current) in
\* the current component; onComplete(true)
CancelByKey ==
    /\ completedRef' = TRUE
    /\ autoReturnTimerRef' = IF component = "current" THEN FALSE ELSE autoReturnTimerRef
    /\ completions' = Append(completions, OnCompleteArg(component, TRUE))
    /\ HandleAnimationComplete(OnCompleteArg(component, TRUE))

\* input === 'q' || input === 'Q'
InputKeyQ ==
    /\ KeyDelivered("q")
    /\ IF InputIgnored
       THEN UNCHANGED <<completedRef, autoReturnTimerRef, completions, pendingAlarmRef,
                        alarmStarts>>
       ELSE CancelByKey
    /\ UNCHANGED <<escapeCount, escapeTimerRef, stale>>

\* key.escape: the second press within the handler's view cancels, the first
\* one sets escapeCount and the reset timeout
InputKeyEscape ==
    /\ KeyDelivered("escape")
    /\ IF InputIgnored
       THEN UNCHANGED <<completedRef, autoReturnTimerRef, completions, escapeCount,
                        escapeTimerRef, stale, pendingAlarmRef, alarmStarts>>
       ELSE IF closure.escapeCount >= 1
            THEN /\ escapeTimerRef' = FALSE
                 /\ CancelByKey
                 /\ UNCHANGED <<escapeCount, stale>>
            ELSE /\ escapeCount' = 1
                 /\ stale' = MarkStale("escapeCount", escapeCount # 1)
                 /\ escapeTimerRef' = TRUE
                 /\ UNCHANGED <<completedRef, autoReturnTimerRef, completions,
                                pendingAlarmRef, alarmStarts>>

\* any other key: dismisses in alarm mode once the animation is over
InputKeyOther ==
    /\ KeyDelivered("other")
    /\ IF ~InputIgnored /\ ~autoReturn /\ closure.done
       THEN /\ completedRef' = TRUE
            /\ completions' = Append(completions, OnCompleteArg(component, FALSE))
            /\ HandleAnimationComplete(OnCompleteArg(component, FALSE))
       ELSE UNCHANGED <<completedRef, completions, pendingAlarmRef, alarmStarts>>
    /\ UNCHANGED <<autoReturnTimerRef, escapeCount, escapeTimerRef, stale>>

\* setTimeout(() => setEscapeCount(0), 1000) fires
EscapeTimerFires ==
    /\ escapeTimerRef
    /\ escapeTimerRef' = FALSE
    /\ escapeCount' = 0
    /\ stale' = MarkStale("escapeCount", mounted /\ escapeCount # 0)
    /\ UNCHANGED <<frame, component, mounted, autoReturn, completedRef, autoReturnTimerRef,
                   closure, keyCount, completions, lastKey, pendingAlarmRef, alarmStarts>>

\* setTimeout(() => onComplete(false), 1200) fires
AutoReturnTimerFires ==
    /\ autoReturnTimerRef
    /\ autoReturnTimerRef' = FALSE
    /\ completions' = Append(completions, OnCompleteArg(component, FALSE))
    /\ HandleAnimationComplete(OnCompleteArg(component, FALSE))
    /\ UNCHANGED <<frame, component, mounted, autoReturn, completedRef, escapeCount,
                   escapeTimerRef, closure, stale, keyCount, lastKey>>

\* the parent returns to the menu after onComplete: the cleanups clear the
\* timeouts (the legacy component only its auto-return timeout)
InputUnmount ==
    /\ mounted
    /\ completions # <<>>
    /\ mounted' = FALSE
    /\ autoReturnTimerRef' = FALSE
    /\ escapeTimerRef' = IF component = "current" THEN FALSE ELSE escapeTimerRef
    /\ UNCHANGED <<frame, component, autoReturn, completedRef, escapeCount, closure, stale,
                   keyCount, completions, lastKey, pendingAlarmRef, alarmStarts>>

\* the variables the component does not own
InputOthers ==
    /\ UNCHANGED <<ringIndex, visibility, pulseIntensity, ringLevel, ringChar, sunLevels>>
    /\ UNCHANGED <<paletteVars, morphVars, compVars, toolVars, fontVars, menuVars>>

InputNext ==
    /\ \/ InputTick
       \/ InputCommit
       \/ InputKeyQ
       \/ InputKeyEscape
       \/ InputKeyOther
       \/ EscapeTimerFires
       \/ AutoReturnTimerFires
       \/ InputUnmount
    /\ InputOthers

SpecInput == InputInit /\ [][InputNext]_vars

\* the timers of a mounted component keep firing and React commits every
\* update: setInterval, the scheduler, and the auto-return setTimeout
SpecInputFair ==
    /\ SpecInput
    /\ WF_vars(InputTick /\ InputOthers)
    /\ WF_vars(InputCommit /\ InputOthers)
    /\ WF_vars(AutoReturnTimerFires /\ InputOthers)

----------------------------------------------------------------------------
(* App.tsx: the arrow keys of the settings menu, with no animation running *)

\* the render after a key: the start time shown is computed from the settings
MenuRender ==
    startTime' = calculateStartTime(settings'.wakeTime.hour, settings'.wakeTime.minute,
                                    settings'.duration)

MenuInit ==
    /\ LayoutIdle
    /\ FontIdle
    /\ InputIdle
    /\ selectedField = 0
    /\ settings = DEFAULT_SETTINGS
    /\ startTime = calculateStartTime(settings.wakeTime.hour, settings.wakeTime.minute,
                                      settings.duration)
    /\ menuKey = "none"
    /\ prevField = 0

MenuUp ==
    /\ menuKey' = "up"
    /\ prevField' = selectedField
    /\ selectedField' = (selectedField - 1 + 5) % 4
    /\ UNCHANGED settings
    /\ MenuRender

MenuDown ==
    /\ menuKey' = "down"
    /\ prevField' = selectedField
    /\ selectedField' = (selectedField + 1) % 4
    /\ UNCHANGED settings
    /\ MenuRender

MenuAdjust ==
    \E direction \in {0 - 1, 1} :
        /\ menuKey' = IF direction = 1 THEN "right" ELSE "left"
        /\ prevField' = selectedField
        /\ settings' = CASE selectedField = 0 -> cycleProfile(settings, direction)
                         [] selectedField = 1 -> adjustTime(settings, direction * 10)
                         [] selectedField = 2 -> adjustDuration(settings, direction * 5)
                         [] selectedField = 3 -> adjustTemp(settings, direction)
                         [] OTHER -> settings
        /\ UNCHANGED selectedField
        /\ MenuRender

MenuNext ==
    /\ MenuUp \/ MenuDown \/ MenuAdjust
    /\ UNCHANGED <<riseVars, paletteVars, morphVars, compVars, toolVars, fontVars, inputVars>>

SpecMenu == MenuInit /\ [][MenuNext]_vars

----------------------------------------------------------------------------
(* Claims about the rise engine, checked under SpecRise *)

SetMax(S) == CHOOSE m \in S : \A x \in S : x <= m

\* k is a nearest integer of n / den
IsNearest(k, n, den) == 2 * Abs(n - k * den) <= den

\* C1: for a fixed ring the visibility never decreases from an earlier frame
\* to a later one; once it is 1.0 it stays 1.0 and once it is > 0 it is never
\* 0 again.
C1_VisibilityMonotone ==
    [][(ringIndex' = ringIndex /\ frame' > frame)
          => /\ visibility' >= visibility
             /\ visibility' <= RING_FADE_DURATION
             /\ (visibility = RING_FADE_DURATION => visibility' = RING_FADE_DURATION)
             /\ (visibility > 0 => visibility' > 0)]_vars

C1_Witness ==
    /\ ringIndex = MAX_RING
    /\ frame > RING_BIRTH_FRAMES[MAX_RING + 1] + RING_FADE_DURATION
    /\ visibility = RING_FADE_DURATION

\* C2: for rings 0..10 and frames 0..TOTAL_FRAMES the level is in 1..4 when
\* the ring is visible, and is 0 with the space as glyph when it is not.
C2_LevelBounds ==
    (ringIndex \in 0..MAX_RING /\ frame \in 0..TOTAL_FRAMES)
        => IF visibility > 0
           THEN ringLevel \in 1..4 /\ ringChar = CHARS[ringLevel + 1] /\ ringChar # <<" ">>
           ELSE ringLevel = 0 /\ ringChar = <<" ">>

C2_Witness ==
    /\ ringIndex = 7 /\ frame = 79
    /\ visibility = 1 /\ ringLevel = 1

\* C3: a visible ring's level is clamp(baseLevel + round(2 * pulse) -
\* round(2 * (1 - visibility)), 1, 4) with round to nearest, and up to
\* RISE_FRAMES getSunPoints gives the ring's points the level of getRingChar.
C3_LevelFormula ==
    (ringIndex \in 0..MAX_RING /\ frame \in 0..RISE_FRAMES)
        => /\ visibility > 0 =>
                \E b \in 0..2, d \in 0..2 :
                    /\ IsNearest(b, 2 * pulseIntensity, PULSE_DEN)
                    /\ IsNearest(d, 2 * (RING_FADE_DURATION - visibility), RING_FADE_DURATION)
                    /\ LET raw == RING_DEFS[ringIndex + 1].baseLevel + b - d IN
                       ringLevel = IF raw < 1 THEN 1 ELSE IF raw > 4 THEN 4 ELSE raw
           /\ sunLevels = IF visibility > 0 THEN {ringLevel} ELSE {}

C3_Witness ==
    /\ ringIndex = 3 /\ frame = 28
    /\ visibility = 4 /\ pulseIntensity = 5 /\ ringLevel = 3 /\ sunLevels = {3}

\* C4: the visibility is 0 for a ring without birth frame and before the
\* birth frame, else min(1, (frame - birthFrame) / 10): 0 at the birth frame
\* itself and 1.0 first at birthFrame + 10.
C4_VisibilityFormula ==
    /\ ringIndex >= 11 => visibility = 0
    /\ ringIndex < 11 =>
         LET age == frame - RING_BIRTH_FRAMES[ringIndex + 1] IN
         /\ age < 0 => visibility = 0
         /\ (age >= 0 /\ age < 10) => visibility = age
         /\ age >= 10 => visibility = 10
         /\ visibility = 10 <=> age >= 10
    /\ (ringIndex = 0 /\ frame = 0) => visibility = 0
    /\ (ringIndex = 0 /\ frame = 10) => visibility = 10

C4_Witness ==
    /\ ringIndex = 0 /\ frame = 10 /\ visibility = 10

\* the pulses the claim counts as active at a frame, as emission frames
ActiveEmissions(f) ==
    {e \in 0..f : e % PULSE_PERIOD = 0 /\ f - e <= PULSE_SPEED * (MAX_RING + 1)}

\* max(0, 1 - |ring - front| / 1.5) of the pulse emitted at e, over PULSE_DEN
PulseOf(ring, f, e) ==
    LET twiceDist == 2 * Abs(PULSE_SPEED * ring - (f - e)) IN
    IF PULSE_DEN - twiceDist > 0 THEN PULSE_DEN - twiceDist ELSE 0

\* C5: the pulse intensity is the maximum over the active pulses of
\* max(0, 1 - |ring - front| / 1.5), and 0 without an active pulse; it lies in
\* [0, 1] and is 1.0 for ring 3 at frame 15.
C5_PulseIsMax ==
    /\ pulseIntensity = IF ActiveEmissions(frame) = {} THEN 0
                        ELSE SetMax({PulseOf(ringIndex, frame, e) : e \in ActiveEmissions(frame)})
    /\ pulseIntensity \in 0..PULSE_DEN
    /\ (ringIndex = 3 /\ frame = 15) => pulseIntensity = PULSE_DEN
    /\ (\E e \in ActiveEmissions(frame) : frame - e = PULSE_SPEED * ringIndex)
          => pulseIntensity = PULSE_DEN

C5_Witness ==
    /\ ringIndex = 3 /\ frame = 15 /\ pulseIntensity = PULSE_DEN
    /\ ActiveEmissions(frame) = {0}

\* the first frame from which every pulse that is active one period later has
\* a predecessor one period earlier
PULSE_WARMUP == PULSE_SPEED * (MAX_RING + 1) - PULSE_PERIOD + 1

\* C6 as stated: for every ring 0..10 and every frame f >= 0 the intensity at
\* f + PULSE_PERIOD equals the intensity at f.
C6_PeriodicFromZero ==
    [][(ringIndex' = ringIndex /\ ringIndex \in 0..MAX_RING /\ frame' = frame + PULSE_PERIOD)
          => pulseIntensity' = pulseIntensity]_vars

\* C6 amended: for every ring 0..10 and every frame f >= 38 the intensity at
\* f + PULSE_PERIOD equals the intensity at f.
C6_PeriodicAfterWarmup ==
    [][(ringIndex' = ringIndex /\ ringIndex \in 0..MAX_RING /\ frame' = frame + PULSE_PERIOD
          /\ frame >= PULSE_WARMUP)
          => pulseIntensity' = pulseIntensity]_vars

C6_Witness ==
    /\ ringIndex = 4 /\ frame = PULSE_WARMUP + PULSE_PERIOD
    /\ pulseIntensity = PULSE_DEN

\* the rings with visibility > 0 at frame f
VisibleRings(f) == {i \in 0..MAX_RING : getRingVisibility(i, f) > 0}

\* the largest visible ring at frame f, -1 when no ring is visible yet
LastVisibleRing(f) == SetMax(VisibleRings(f) \cup {0 - 1})

\* at the frame of the state the visible rings are the prefix
\* 0..LastVisibleRing, visibility does not increase with the ring index, and
\* the art of buildSunForFrame has the side 2k + 1 of its largest visible ring
C25_PrefixAtFrame ==
    LET k == LastVisibleRing(frame) IN
    /\ VisibleRings(frame) = 0..k
    /\ \A i \in 0..(MAX_RING - 1) :
          getRingVisibility(i + 1, frame) <= getRingVisibility(i, frame)
    /\ visibility > 0 => ringIndex \in 0..k
    /\ (ringIndex \in 0..MAX_RING /\ visibility = 0) => ringIndex > k
    /\ frame >= 113 => k = MAX_RING
    /\ frame = RISE_FRAMES =>
          /\ Len(getSunPoints(frame, 0, 0)) = 81
          /\ Cardinality(VisibleRings(frame)) = 11
          /\ \A i \in 0..MAX_RING : SunLevelsOfRing(i, frame) # {}
    /\ Len(buildSunForFrame(frame)) = 2 * Max(k, 0) + 1

\* C25: at every frame the visible rings are a prefix 0..k of the ring
\* indices and visibility is non-increasing in the ring index; k never
\* decreases as the frame advances and is MAX_RING from frame 113 on, so the
\* sun at RISE_FRAMES has all 11 rings (81 points) and the side of
\* buildSunForFrame never shrinks
C25_VisiblePrefix ==
    /\ []C25_PrefixAtFrame
    /\ [][frame' >= frame =>
            /\ LastVisibleRing(frame') >= LastVisibleRing(frame)
            /\ SunSize(frame') >= SunSize(frame)]_vars

\* the last ring has just become visible
C25_Witness ==
    /\ frame = 113
    /\ ringIndex = MAX_RING
    /\ visibility = 1

----------------------------------------------------------------------------
(* Claims about the morph engine, checked under SpecMorph *)

\* the targets of the component's current render
CurrentTargets == ComponentTargets(width, height, currentTime)

\* the source of each of these targets
CurrentSources ==
    LET sunCenter == SunCenter(frame, width, height)
        sunPoints == getSunPoints(RISE_FRAMES, sunCenter[1], sunCenter[2])
    IN  [k \in 1..Len(CurrentTargets) |-> MorphSource(k - 1, sunPoints, sunCenter)]

\* at frame MORPH_START the eased progress is 0, every particle is at its
\* source and every rendered glyph is the filled dot
C9_StartOfMorph ==
    frame = MORPH_START =>
        /\ MorphEased(frame) = 0
        /\ Len(morphed) = Len(CurrentTargets)
        /\ \A k \in 1..Len(morphed) :
              /\ morphed[k].point = <<CurrentSources[k].row, CurrentSources[k].col>>
              /\ morphed[k].char = DOT
        /\ \A pos \in DOMAIN morphCells : morphCells[pos] = DOT

\* at frame MORPH_START + MORPH_FRAMES the eased progress is 1 and every
\* particle is exactly at its target
C9_EndPositions ==
    frame = MORPH_START + MORPH_FRAMES =>
        /\ MorphEased(frame) = EASE_DEN
        /\ Len(morphed) = Len(CurrentTargets)
        /\ \A k \in 1..Len(morphed) : morphed[k].point = CurrentTargets[k].point

\* at frame MORPH_START + MORPH_FRAMES every target cell inside the grid
\* shows the glyph of that target
C9_EndGlyphs ==
    frame = MORPH_START + MORPH_FRAMES =>
        \A k \in 1..Len(CurrentTargets) :
            InBounds(CurrentTargets[k].point, height - 1, width) =>
                /\ CurrentTargets[k].point \in DOMAIN morphCells
                /\ morphCells[CurrentTargets[k].point] = CurrentTargets[k].char

\* C9: at frame 120 the eased progress is 0, every particle is at its source
\* position and every rendered glyph is the filled-dot placeholder; at frame
\* 180 the eased progress is 1, every particle is exactly at its target
\* position and every in-bounds target cell shows that target's own glyph.
C9_MorphBoundary == C9_StartOfMorph /\ C9_EndPositions /\ C9_EndGlyphs

\* two targets of the final frame share a cell inside the grid and differ in glyph
C9_GlyphLost ==
    /\ frame = MORPH_START + MORPH_FRAMES
    /\ \E k \in 1..Len(CurrentTargets) :
          /\ InBounds(CurrentTargets[k].point, height - 1, width)
          /\ morphed[k].point = CurrentTargets[k].point
          /\ morphCells[CurrentTargets[k].point] # CurrentTargets[k].char

AllPlaceholders(particles) ==
    \A k \in 1..Len(particles) : particles[k].char = DOT

AllOwnGlyphs(particles, targets) ==
    /\ Len(particles) = Len(targets)
    /\ \A k \in 1..Len(particles) : particles[k].char = targets[k].char

\* eased progress e > 0.8 at frame f
EasedPastCutover(f) == 5 * MorphEased(f) > 4 * EASE_DEN

\* within one morph frame the particles of the component and those of
\* buildMorphFrame all show the dot while e <= 0.8 and all show the glyph of
\* their target once e > 0.8, which is from frame 145 on
C10_OneFrame ==
    (frame >= MORPH_START /\ frame <= TOTAL_FRAMES) =>
        /\ Len(morphed) = Len(CurrentTargets)
        /\ Len(toolMorphed) = Len(ToolTargets(width, height, currentTime))
        /\ morphed # <<>>
        /\ toolMorphed # <<>>
        /\ (EasedPastCutover(frame) <=> frame >= 145)
        /\ IF EasedPastCutover(frame)
           THEN /\ AllOwnGlyphs(morphed, CurrentTargets)
                /\ AllOwnGlyphs(toolMorphed, ToolTargets(width, height, currentTime))
                /\ ~AllPlaceholders(morphed)
                /\ ~AllPlaceholders(toolMorphed)
           ELSE /\ AllPlaceholders(morphed)
                /\ AllPlaceholders(toolMorphed)

\* from one morph frame to the next the glyphs of the targets are never
\* replaced by dots again, and the dots are replaced only on entering frame 145
C10_SwitchOnce ==
    (frame >= MORPH_START /\ frame' = frame + 1) =>
        /\ ~AllPlaceholders(morphed) => ~AllPlaceholders(morphed')
        /\ ~AllPlaceholders(toolMorphed) => ~AllPlaceholders(toolMorphed')
        /\ (AllPlaceholders(morphed) /\ ~AllPlaceholders(morphed')) => frame' = 145
        /\ (AllPlaceholders(toolMorphed) /\ ~AllPlaceholders(toolMorphed')) => frame' = 145

\* C10: the morph glyph change is a single hard cutover: in a given frame all
\* particles show the placeholder dot if eased progress e <= 0.8 and all show
\* their target's own glyph if e > 0.8 (first at frame 145); as the frame
\* advances from 120 to 180 the switch happens exactly once and a later frame
\* never shows placeholders again.
C10_HardCutover == []C10_OneFrame /\ [][C10_SwitchOnce]_vars

C10_Witness ==
    /\ frame = 145
    /\ morphed # <<>>
    /\ AllOwnGlyphs(morphed, CurrentTargets)
    /\ \E k \in 1..Len(morphed) : morphed[k].char # DOT
    /\ AllOwnGlyphs(toolMorphed, ToolTargets(width, height, currentTime))

\* x lies between a and b, the ends included
Between(x, a, b) == Min(a, b) <= x /\ x <= Max(a, b)

\* every particle lies between its source and its target on both axes
NoOvershoot(particles, sources, targets) ==
    /\ Len(particles) = Len(targets)
    /\ \A k \in 1..Len(particles) :
          /\ Between(particles[k].point[1], sources[k].row, targets[k].point[1])
          /\ Between(particles[k].point[2], sources[k].col, targets[k].point[2])

\* no particle of later is farther from its target than it is in earlier
NoFarther(earlier, later, targets) ==
    /\ Len(earlier) = Len(targets)
    /\ Len(later) = Len(targets)
    /\ \A k \in 1..Len(targets) :
          /\ Abs(targets[k].point[1] - later[k].point[1])
                <= Abs(targets[k].point[1] - earlier[k].point[1])
          /\ Abs(targets[k].point[2] - later[k].point[2])
                <= Abs(targets[k].point[2] - earlier[k].point[2])

\* C23: during the morph the eased progress stays in [0, 1] and never
\* decreases, every particle lies between its source and its target on each
\* axis (no overshoot), and from one frame to the next no particle gets
\* farther from its target
C23_NoOvershoot ==
    /\ []((frame >= MORPH_START /\ frame <= TOTAL_FRAMES) =>
            /\ MorphEased(frame) \in 0..EASE_DEN
            /\ NoOvershoot(morphed, CurrentSources, CurrentTargets))
    /\ [][(frame >= MORPH_START /\ frame' = frame + 1) =>
            /\ MorphEased(frame) <= MorphEased(frame')
            /\ NoFarther(morphed, morphed', CurrentTargets)]_vars

\* a frame inside the morph with a particle on its way: neither at its
\* source nor at its target
C23_Witness ==
    /\ frame = MORPH_START + 30
    /\ \E k \in 1..Len(morphed) :
          /\ morphed[k].point # <<CurrentSources[k].row, CurrentSources[k].col>>
          /\ morphed[k].point # CurrentTargets[k].point

\* the source the claim gives target i (counted from 0) for the sun center
\* center: the i-th point of the sun at RISE_FRAMES, or the golden-angle point
\* at distance (i * 7 mod 7) + 1 with level 3
ClaimedSource(i, center) ==
    LET sun == getSunPoints(RISE_FRAMES, center[1], center[2])
        dist == ((i * 7) % 7) + 1
    IN  IF i < Len(sun)
        THEN [point |-> sun[i + 1].point, level |-> sun[i + 1].level]
        ELSE [point |-> <<center[1] + GoldenRow(i, dist), center[2] + GoldenCol(i, dist)>>,
              level |-> 3]

\* [sunCenterY, sunCenterX] of buildMorphFrame
ToolSunCenter == <<MathFloor(height, 2), MathFloor(width, 2)>>

\* C24: in getMorphedPoints and in buildMorphFrame the source of target i is
\* the i-th point of the sun at RISE_FRAMES while i is below the number of sun
\* points, and otherwise the golden-angle point at distance (i * 7 mod 7) + 1
\* from the sun center, with level 3. At frame MORPH_START the eased progress
\* is 0 and every particle stands on its source.
C24_SourcesOfTargets ==
    /\ (frame >= MORPH_START /\ frame <= TOTAL_FRAMES) =>
          \A k \in 1..Len(morphed) :
              morphed[k].level = ClaimedSource(k - 1, SunCenter(frame, width, height)).level
    /\ frame = MORPH_START =>
          /\ \A k \in 1..Len(morphed) :
                morphed[k].point = ClaimedSource(k - 1, SunCenter(frame, width, height)).point
          /\ \A k \in 1..Len(toolMorphed) :
                toolMorphed[k].point = ClaimedSource(k - 1, ToolSunCenter).point

\* at frame MORPH_START a particle of buildMorphFrame past the sun points
\* stands away from the point the claim gives it
C24_ToolSourceDiffers ==
    /\ frame = MORPH_START
    /\ \A k \in 1..Len(morphed) :
          morphed[k].point = ClaimedSource(k - 1, SunCenter(frame, width, height)).point
    /\ \E k \in 1..Len(toolMorphed) :
          /\ k - 1 >= Len(getSunPoints(RISE_FRAMES, 0, 0))
          /\ toolMorphed[k].point # ClaimedSource(k - 1, ToolSunCenter).point

----------------------------------------------------------------------------
(* Claims about the font functions, checked under SpecFont *)

\* the text with every character the table has no entry for replaced by a space
Blanked(t, HasEntry(_)) == [k \in 1..Len(t) |-> IF HasEntry(t[k]) THEN t[k] ELSE " "]

InBoldFont(ch) == ToUpperCase(ch) \in DOMAIN BOLD_FONT

InSegmentFont(ch) == ch \in DOMAIN SEGMENT_FONT

\* the cells of a glyph of SEGMENT_FONT that are not a space: <<row, column, unit>>
SegmentInk(ch) ==
    LET glyph == SEGMENT_FONT[ch]
    IN  {cell \in UNION {{<<r - 1, c - 1, glyph[r][c]>> : c \in 1..Len(glyph[r])} :
                              r \in 1..Len(glyph)} : cell[3] # " "}

\* the column at which character k of the text starts when a character without
\* an entry takes the room of a space
RECURSIVE SegmentStart(_, _)
SegmentStart(t, k) ==
    IF k = 1 THEN 0
    ELSE SegmentStart(t, k - 1)
            + Len(SEGMENT_FONT[IF InSegmentFont(t[k - 1]) THEN t[k - 1] ELSE " "][1]) + 1

\* C18: both functions return for every string, a character without an entry
\* in the table lays out exactly as a space and adds no point, and every cell
\* of every other character is still among the points, at its place
C18_UnknownIsBlank ==
    LET produced == {segmentPoints[k] : k \in 1..Len(segmentPoints)}
        known == {k \in 1..Len(fontText) : InSegmentFont(fontText[k])}
        expected == UNION {{[point |-> <<cell[1], SegmentStart(fontText, k) + cell[2]>>,
                             char |-> <<cell[3]>>] : cell \in SegmentInk(fontText[k])} :
                                k \in known}
    IN  /\ boldPoints = textToPointsBold(Blanked(fontText, InBoldFont), 0)
        /\ segmentPoints = timeToSegmentPoints(Blanked(fontText, InSegmentFont), 0)
        /\ produced = expected

\* a string with a digit on both sides of a character neither table knows
C18_Witness ==
    /\ Len(fontText) = 3
    /\ InSegmentFont(fontText[1]) /\ fontText[1] # " "
    /\ ~InSegmentFont(fontText[2]) /\ ~InBoldFont(fontText[2])
    /\ InSegmentFont(fontText[3]) /\ fontText[3] # " "
    /\ \E k \in 1..Len(segmentPoints) :
          segmentPoints[k].point[2] >= SegmentStart(fontText, 3)

----------------------------------------------------------------------------
(* Claims about the completion callback, checked under SpecInput *)

\* C20: onComplete is called at most once under every interleaving of ticks,
\* commits, key presses and timeouts, and once it has been called or the
\* auto-return timeout is pending a key press changes nothing
C20_CompletesOnce ==
    /\ [](Len(completions) <= 1)
    /\ [][(keyCount' # keyCount /\ (completions # <<>> \/ autoReturnTimerRef)) =>
            UNCHANGED <<completions, completedRef, escapeCount, escapeTimerRef,
                        autoReturnTimerRef, closure, stale, mounted>>]_vars

\* a preview run to its end: keys were pressed, and the auto-return timeout
\* made the one call
C20_Witness ==
    /\ component = "current"
    /\ autoReturn
    /\ frame = TOTAL_FRAMES
    /\ keyCount > 0
    /\ completedRef
    /\ ~autoReturnTimerRef
    /\ completions = <<"false">>

\* C21: startAlarm is called only when a confirm animation (opened with
\* Enter, autoReturn false) completes without being cancelled: no press of Q
\* or Escape starts the alarm, and a preview never does
C21_AlarmOnlyOnConfirm ==
    [][alarmStarts' # alarmStarts =>
          /\ ~autoReturn
          /\ ~(keyCount' # keyCount /\ lastKey' \in {"q", "escape"})]_vars

\* the confirm animation of the legacy component ended with Q, and the alarm
\* was started
C21_QStartsAlarm ==
    /\ component = "legacy"
    /\ ~autoReturn
    /\ lastKey = "q"
    /\ completions = <<"undefined">>
    /\ alarmStarts = 1

\* C22: the frame counter starts at 0, a tick adds exactly 1 while it is below
\* TOTAL_FRAMES and leaves it alone at TOTAL_FRAMES: it stays an integer in
\* 0..TOTAL_FRAMES, never decreases, and while the component is mounted and
\* its interval keeps ticking it reaches TOTAL_FRAMES and stays there
C22_FrameCounter ==
    /\ frame = 0
    /\ [](frame \in 0..TotalFramesOf(component))
    /\ [][/\ frame' = frame \/ frame' = frame + 1
          /\ frame = TotalFramesOf(component) => frame' = frame
          /\ InputTick => frame' = frame + 1]_vars
    /\ <>(frame = TotalFramesOf(component) \/ ~mounted)

\* the counter has been ticked up to TOTAL_FRAMES in a mounted component
C22_Witness ==
    /\ mounted
    /\ frame = TotalFramesOf(component)
    /\ "frame" \in stale

\* C26: in preview mode, once the frame counter is at TOTAL_FRAMES a mounted
\* component comes to call onComplete; the pending auto-return timeout goes
\* away only in a step that calls onComplete or after onComplete was called
C26_AutoReturnCompletes ==
    /\ (autoReturn /\ mounted /\ frame = TotalFramesOf(component)) ~> (completions # <<>>)
    /\ [][(autoReturnTimerRef /\ ~autoReturnTimerRef') => completions' # <<>>]_vars

\* a preview of the legacy component that was re-rendered for an Escape press
\* and was ended by its auto-return timeout
C26_Witness ==
    /\ component = "legacy"
    /\ autoReturn
    /\ frame = TotalFramesOf(component)
    /\ lastKey = "escape"
    /\ closure.escapeCount = 1
    /\ ~autoReturnTimerRef
    /\ completions = <<"undefined">>

----------------------------------------------------------------------------
(* Claims about the offline renderer, checked under SpecTool *)

\* C11: for fixed (frame, width, height, theme) a frame-building entry point
\* returns identical output on repeated calls, whatever was rendered before:
\* a call that repeats the explicit inputs of the call before it returns the
\* same art.
C11_SameInputsSameOutput ==
    [][(toolFrame' = toolFrame /\ width' = width /\ height' = height /\ theme' = theme)
          => toolArt' = toolArt]_vars

\* the same morph frame was rendered at a second clock reading
C11_ClockRead ==
    /\ toolFrame >= MORPH_START
    /\ \E time \in ClockTimes :
          /\ time # now
          /\ ToolArts[toolFrame, <<width, height>>, time] # toolArt

\* C17: a frame below 0 renders as frame 0 and a frame above 180 renders as
\* frame 180, in the art of the offline renderer and in the grid of the
\* component's render taken as a function of the frame; every frame evaluates
C17_FrameClamped ==
    /\ toolFrame < 0 =>
          /\ toolArt = ToolArts[0, <<width, height>>, now]
          /\ ComponentGrid(toolFrame, width, height, now) = ComponentGrid(0, width, height, now)
    /\ toolFrame > TOTAL_FRAMES =>
          /\ toolArt = ToolArts[TOTAL_FRAMES, <<width, height>>, now]
          /\ ComponentGrid(toolFrame, width, height, now)
                = ComponentGrid(TOTAL_FRAMES, width, height, now)

\* a frame past the end of the animation whose art and grid show the clock
C17_Witness ==
    /\ toolFrame > TOTAL_FRAMES
    /\ \E r \in 1..Len(toolArt) : \E c \in 1..Len(toolArt[r]) : toolArt[r][c] # " "
    /\ LET cells == ComponentGrid(toolFrame, width, height, now)
       IN  \E r \in 1..Len(cells) : \E c \in 1..Len(cells[r]) : cells[r][c].char # <<" ">>

----------------------------------------------------------------------------
(* Claims about the compositor, checked under SpecComposite *)

\* every row of rows has n entries
RowsOfLength(rows, n) == \A r \in 1..Len(rows) : Len(rows[r]) = n

\* C12: for every render with width > 0 and height > 0, in both the rise and
\* the morph phase, the produced grid has exactly height rows and every row
\* has exactly width cells.
C12_HeightByWidth ==
    (width > 0 /\ height > 0) =>
        /\ Len(grid) = height
        /\ RowsOfLength(grid, width)

\* C12 as amended: the frame buffer of the component has exactly height - 1
\* rows of exactly width cells in both phases, and the art of buildMorphFrame
\* has height rows of width characters.
C12_RenderHByWidth ==
    (width > 0 /\ height > 0) =>
        /\ Len(grid) = height - 1
        /\ RowsOfLength(grid, width)
        /\ phase \in {"rise", "morph"}
        /\ toolPhase = "morph" => (Len(toolArt) = height /\ RowsOfLength(toolArt, width))

C12_Witness ==
    /\ phase = "morph"
    /\ toolPhase = "morph"
    /\ width = 25
    /\ height = 9
    /\ Len(grid) = 8
    /\ Len(grid[8]) = 25
    /\ Len(toolArt) = 9

\* the cell at a point of the frame buffer
CellAt(point) == grid[point[1] + 1][point[2] + 1]

\* row in [0, rows) and column in [0, width), for the rows of the component
InsideGrid(point) ==
    point[1] >= 0 /\ point[1] < height - 1 /\ point[2] >= 0 /\ point[2] < width

\* C13: each cell write of the compositor (ring points in the rise phase,
\* morphed particles in the morph phase) targets a row in [0, rows) and a
\* column in [0, width); a point outside these bounds is skipped without
\* changing any cell: no row or column is added, every written cell holds the
\* last write made to its point, and every other cell is the default cell.
C13_WritesInBounds ==
    LET points == {cellWrites[k].point : k \in 1..Len(cellWrites)}
        default == [char |-> <<" ">>, color |-> ComponentColors(frame).sky]
    IN  /\ Len(grid) = Max(0, height - 1)
        /\ RowsOfLength(grid, width)
        /\ \A k \in 1..Len(cellWrites) :
              InsideGrid(cellWrites[k].point) =>
                  \E j \in k..Len(cellWrites) :
                      /\ cellWrites[j].point = cellWrites[k].point
                      /\ CellAt(cellWrites[k].point) = cellWrites[j].cell
        /\ \A r \in 1..Len(grid) : \A c \in 1..Len(grid[r]) :
              <<r - 1, c - 1>> \notin points => grid[r][c] = default

\* a render with points on both sides of the bounds: some are written, some
\* are skipped
C13_Witness ==
    /\ \E k \in 1..Len(cellWrites) : ~InsideGrid(cellWrites[k].point)
    /\ \E k \in 1..Len(cellWrites) :
          /\ InsideGrid(cellWrites[k].point)
          /\ CellAt(cellWrites[k].point) = cellWrites[k].cell
    /\ \E k \in 1..Len(cellWrites) : cellWrites[k].point[2] = width

\* the points the render of the current frame covers: the points of the rings
\* with a visibility above zero (rise) or the positions of the particles (morph)
CoveredPoints ==
    IF frame >= MORPH_START
    THEN LET particles == ComponentMorphed(frame, width, height, currentTime)
         IN  {particles[k].point : k \in 1..Len(particles)}
    ELSE LET sunCenter == SunCenter(frame, width, height)
             visible == {ring \in 0..MAX_RING : getRingVisibility(ring, frame) > 0}
         IN  UNION {{<<sunCenter[1] + RING_DEFS[ring + 1].points[k][1],
                       sunCenter[2] + RING_DEFS[ring + 1].points[k][2]>> :
                         k \in 1..Len(RING_DEFS[ring + 1].points)} : ring \in visible}

\* the cells of the grid that no ring point and no particle covers
UncoveredCells ==
    LET covered == CoveredPoints
    IN  {rc \in UNION {{<<r, c>> : c \in 1..Len(grid[r])} : r \in 1..Len(grid)} :
            <<rc[1] - 1, rc[2] - 1>> \notin covered}

\* C14 (as stated): every cell that no visible ring and no particle covers is a
\* space colored with a sky color of the palette interpolator for the theme,
\* whichever progress in [0, 1] the current frame is mapped to
C14_DefaultIsPaletteSky ==
    LET skies == {getColors(p, theme).sky : p \in 0..PROGRESS_DEN}
    IN  \A rc \in UncoveredCells :
            /\ grid[rc[1]][rc[2]].char = <<" ">>
            /\ grid[rc[1]][rc[2]].color \in skies

\* C14 (amended): every cell that no visible ring and no particle covers is a
\* space colored with the sky of the component's colors, the constant black
C14_DefaultIsBlackBlank ==
    \A rc \in UncoveredCells : grid[rc[1]][rc[2]] = [char |-> <<" ">>, color |-> BLACK]

\* a rise frame with covered and uncovered cells, where the sunrise palette
\* gives a sky that is not black
C14_Witness ==
    /\ phase = "rise"
    /\ UncoveredCells # {}
    /\ \E r \in 1..Len(grid) : \E c \in 1..Len(grid[r]) : grid[r][c].char # <<" ">>
    /\ getColors(Min(frame, COLOR_TRANSITION_START), "blood_red").sky # BLACK

\* C15: at frame 179 every particle stands on its target with the target's
\* glyph, every non-blank cell is an in-bounds target cell showing the glyph of a
\* target at that cell, every in-bounds target cell is drawn, and so no sun
\* ring point outside the targets is left
C15_ResolvedAtLastFrame ==
    frame = TOTAL_FRAMES - 1 =>
        LET targets == ComponentTargets(width, height, currentTime)
            particles == ComponentMorphed(frame, width, height, currentTime)
            targetPoints == {targets[k].point : k \in 1..Len(targets)}
            GlyphsAt(point) == {targets[k].char : k \in {j \in 1..Len(targets) :
                                                              targets[j].point = point}}
        IN  /\ Len(particles) = Len(targets)
            /\ \A k \in 1..Len(targets) :
                  /\ particles[k].point = targets[k].point
                  /\ particles[k].char = targets[k].char
            /\ \A r \in 1..Len(grid) : \A c \in 1..Len(grid[r]) :
                  IF <<r - 1, c - 1>> \in targetPoints
                  THEN grid[r][c].char \in GlyphsAt(<<r - 1, c - 1>>)
                  ELSE grid[r][c].char = <<" ">>

\* the last morph frame on the 25 x 9 grid: clock cells are drawn, some clock
\* targets fall outside, and a point of the full sun that is no target is blank
C15_Witness ==
    /\ frame = TOTAL_FRAMES - 1
    /\ width = 25 /\ height = 9
    /\ \E r \in 1..Len(grid) : \E c \in 1..Len(grid[r]) : grid[r][c].char # <<" ">>
    /\ LET targets == ComponentTargets(width, height, currentTime)
       IN  \E k \in 1..Len(targets) : ~InsideGrid(targets[k].point)
    /\ LET sunCenter == SunCenter(frame, width, height)
           sunPoints == getSunPoints(RISE_FRAMES, sunCenter[1], sunCenter[2])
       IN  \E k \in 1..Len(sunPoints) :
               /\ InsideGrid(sunPoints[k].point)
               /\ CellAt(sunPoints[k].point).char = <<" ">>

\* the points of all rings around the sun centre of the current frame
AllRingPoints ==
    LET sunCenter == SunCenter(frame, width, height)
    IN  UNION {{<<sunCenter[1] + RING_DEFS[ring + 1].points[k][1],
                  sunCenter[2] + RING_DEFS[ring + 1].points[k][2]>> :
                    k \in 1..Len(RING_DEFS[ring + 1].points)} : ring \in 0..MAX_RING}

\* the render of the current frame ran the rise branch or the morph branch by
\* the frame alone: rise writes are ring points only, morph writes are one per
\* target at the particle positions and no ring is drawn
OnePhasePerRender ==
    /\ phase \in {"rise", "morph"}
    /\ phase = "rise" <=> frame < MORPH_START
    /\ phase = "morph" <=> frame >= MORPH_START
    /\ toolPhase = "morph" <=> toolFrame >= MORPH_START
    /\ phase = "rise" =>
          \A k \in 1..Len(cellWrites) : cellWrites[k].point \in AllRingPoints
    /\ phase = "morph" =>
          LET particles == ComponentMorphed(frame, width, height, currentTime)
          IN  /\ Len(cellWrites) = Len(ComponentTargets(width, height, currentTime))
              /\ \A k \in 1..Len(cellWrites) :
                    /\ cellWrites[k].point = particles[k].point
                    /\ cellWrites[k].cell.char = particles[k].char

\* C16: every render runs one phase, rise iff frame < 120 and morph iff
\* frame >= 120, the morph phase writes no ring cell, and the phase changes only
\* in the step from frame 119 to frame 120, from rise to morph, and never back
C16_PhaseCutover ==
    /\ []OnePhasePerRender
    /\ [][/\ phase = "morph" => phase' = "morph"
          /\ phase' # phase => frame = MORPH_START - 1 /\ frame' = MORPH_START]_vars

\* the first morph render: the frame counter has just passed the cutover
C16_Witness ==
    /\ frame = MORPH_START
    /\ phase = "morph"
    /\ toolPhase = "morph"
    /\ cellWrites # <<>>
    /\ \E r \in 1..Len(grid) : \E c \in 1..Len(grid[r]) : grid[r][c].char # <<" ">>

\* the points of ring i as a set
RingPointSet(i) == {RING_DEFS[i + 1].points[k] : k \in 1..Len(RING_DEFS[i + 1].points)}

\* C19: the ring table has the 11 rings 0..10 with distance = index, dot rings
\* 0..6 and ray rings 7..10; ring 0 is the point (0,0), every other ring has 8
\* distinct points, 4 cardinal and 4 diagonal at offset d; the point sets of two
\* rings are disjoint and no rise render writes one point twice
C19_RingTable ==
    /\ Len(RING_DEFS) = 11
    /\ MAX_RING = Len(RING_DEFS) - 1
    /\ \A i \in 0..MAX_RING :
          /\ RING_DEFS[i + 1].distance = i
          /\ RING_DEFS[i + 1].isRay <=> i >= 7
    /\ RING_DEFS[1].points = << <<0, 0>> >>
    /\ \A d \in 1..MAX_RING :
          /\ Len(RING_DEFS[d + 1].points) = 8
          /\ Cardinality(RingPointSet(d)) = 8
          /\ Cardinality({p \in RingPointSet(d) :
                             (p[1] = 0 /\ Abs(p[2]) = d) \/ (p[2] = 0 /\ Abs(p[1]) = d)}) = 4
          /\ Cardinality({p \in RingPointSet(d) : Abs(p[1]) = d /\ Abs(p[2]) = d}) = 4
    /\ \A i, j \in 0..MAX_RING : i # j => RingPointSet(i) \cap RingPointSet(j) = {}
    /\ phase = "rise" =>
          \A j, k \in 1..Len(cellWrites) : j # k => cellWrites[j].point # cellWrites[k].point

\* a rise render that draws at least three rings, a ray ring among them
C19_Witness ==
    /\ phase = "rise"
    /\ Len(cellWrites) >= 17
    /\ getRingVisibility(7, frame) > 0
    /\ \E k \in 1..Len(cellWrites) : InsideGrid(cellWrites[k].point)

\* the glyph the rise phase is to show at offset <<dr, dc>> of ring ring
ClaimedGlyph(ring, dr, dc, f) ==
    IF ring <= 6 THEN CHARS[RingLevel(ring, f) + 1]
    ELSE IF 2 * getRingVisibility(ring, f) > RING_FADE_DURATION
         THEN IF dr = 0 THEN RAY_CHARS.H
              ELSE IF dc = 0 THEN RAY_CHARS.V
              ELSE IF dr = dc THEN RAY_CHARS.D1 ELSE RAY_CHARS.D2
         ELSE CHARS[2]

\* the writes of buildSunForFrame for the frame of the state
CoreSunWrites ==
    LET size == SunSize(frame)
    IN  SunArtWritesFrom(0, (size - 1) \div 2, Min(frame, RISE_FRAMES), MathFloor(size, 2))

\* C27: in the rise phase every in-bounds point of a visible ring gets
\* CHARS[level] on a dot ring and, on a ray ring, the direction glyph when the
\* visibility is above 0.5 and the dim dot CHARS[1] otherwise; buildSunForFrame
\* and the compositor write the same glyph for the same ring point and frame
C27_SameGlyph ==
    phase = "rise" =>
        LET sunCenter == SunCenter(frame, width, height)
            center == MathFloor(SunSize(frame), 2)
            core == CoreSunWrites
        IN  /\ \A k \in 1..Len(cellWrites) :
                  InsideGrid(cellWrites[k].point) =>
                      LET dr == cellWrites[k].point[1] - sunCenter[1]
                          dc == cellWrites[k].point[2] - sunCenter[2]
                      IN  /\ cellWrites[k].cell.char =
                                ClaimedGlyph(Max(Abs(dr), Abs(dc)), dr, dc, frame)
                          /\ \E j \in 1..Len(core) :
                                /\ core[j].point = <<center + dr, center + dc>>
                                /\ core[j].cell = cellWrites[k].cell.char
            /\ \A j \in 1..Len(core) :
                  LET dr == core[j].point[1] - center
                      dc == core[j].point[2] - center
                  IN  core[j].cell = ClaimedGlyph(Max(Abs(dr), Abs(dc)), dr, dc, frame)

\* a faint ray point on the screen: the compositor writes U+00B7 where
\* buildSunForFrame writes the two code units its file holds for the dim dot
C27_DimDotDiffers ==
    /\ phase = "rise"
    /\ LET sunCenter == SunCenter(frame, width, height)
           center == MathFloor(SunSize(frame), 2)
           core == CoreSunWrites
           faint == {k \in 1..Len(cellWrites) :
                       /\ InsideGrid(cellWrites[k].point)
                       /\ cellWrites[k].cell.char = DIM_DOT}
       IN  \E k \in faint : \E j \in 1..Len(core) :
               /\ core[j].point = <<cellWrites[k].point[1] - sunCenter[1] + center,
                                    cellWrites[k].point[2] - sunCenter[2] + center>>
               /\ core[j].cell = CHARS[2]
               /\ core[j].cell # cellWrites[k].cell.char

\* the colors of the particle cells written by the render of the state
MorphColorsUsed == {cellWrites[k].cell.color : k \in 1..Len(cellWrites)}

\* C28: in the morph phase all particle cells of one frame get one color: the
\* core color iff the progress (frame - MORPH_START) / MORPH_FRAMES is above
\* 0.7, which it is not yet at frame MORPH_START + 42, and the glow color
\* otherwise; once the core color is used no later frame uses the glow color
C28_MorphColor ==
    /\ [](phase = "morph" =>
            LET cols == ComponentColors(frame) IN
            /\ cellWrites # <<>>
            /\ cols.core # cols.glow
            /\ MorphColorsUsed =
                  IF 10 * (frame - MORPH_START) > 7 * MORPH_FRAMES
                  THEN {cols.core} ELSE {cols.glow}
            /\ frame = MORPH_START + 42 => MorphColorsUsed = {cols.glow}
            /\ frame = MORPH_START + 43 => MorphColorsUsed = {cols.core})
    /\ [][(phase = "morph" /\ MorphColorsUsed = {ComponentColors(frame).core})
            => MorphColorsUsed' = {ComponentColors(frame').core}]_vars

\* the last glow frame: 42 / 60 is 0.7 and not above it
C28_Witness ==
    /\ frame = MORPH_START + 42
    /\ phase = "morph"
    /\ MorphColorsUsed = {ComponentColors(frame).glow}
    /\ Cardinality({cellWrites[k].point : k \in 1..Len(cellWrites)}) > 1

----------------------------------------------------------------------------
(* Claims about the palette interpolator, checked under SpecPalette *)

FirstKeyframe(th) ==
    LET pal == PALETTES[th] IN
    [sky |-> pal[1].sky, core |-> pal[1].core, inner |-> pal[1].inner,
     outer |-> pal[1].outer, glow |-> GLOWS[th][1].glow]

LastKeyframe(th) ==
    LET pal == PALETTES[th]
        glw == GLOWS[th]
    IN  [sky |-> pal[Len(pal)].sky, core |-> pal[Len(pal)].core,
         inner |-> pal[Len(pal)].inner, outer |-> pal[Len(pal)].outer,
         glow |-> glw[Len(glw)].glow]

\* C7: for each theme getColors(0, theme) is exactly the first keyframe (sky,
\* core, inner, outer and the first glow) and getColors(1, theme) exactly the
\* last one.
C7_PaletteEndpoints ==
    /\ progress = 0 => colors = FirstKeyframe(theme)
    /\ progress = PROGRESS_DEN => colors = LastKeyframe(theme)

C7_Witness ==
    /\ progress = PROGRESS_DEN /\ theme = "claude_orange"
    /\ colors = LastKeyframe("claude_orange")

\* C8 as stated: a progress below 0 gives the colors of progress 0 and a
\* progress above 1 gives the colors of progress 1, for every theme.
C8_ClampsOutside ==
    /\ progress < 0 => colors = getColors(0, theme)
    /\ progress > PROGRESS_DEN => colors = getColors(PROGRESS_DEN, theme)


----------------------------------------------------------------------------
(* Claims about the settings menu *)

\* the wake time and the shown start time in minutes of the day
WakeMinutes == settings.wakeTime.hour * 60 + settings.wakeTime.minute

TempIndex == CHOOSE i \in 1..Len(TEMP_OPTIONS) : TEMP_OPTIONS[i] = settings.endTemp

\* every field of the menu state is in its range and the start time shown is
\* the wake time minus the duration, modulo 24 hours, as HH:MM
MenuValid ==
    LET start == (WakeMinutes - settings.duration) % 1440 IN
    /\ selectedField \in 0..3
    /\ settings.wakeTime.hour \in 0..23
    /\ settings.wakeTime.minute \in 0..59
    /\ settings.duration \in DURATION_MIN..DURATION_MAX
    /\ \E i \in 1..Len(TEMP_OPTIONS) : TEMP_OPTIONS[i] = settings.endTemp
    /\ startTime = <<DIGITS[((start \div 60) \div 10) + 1], DIGITS[((start \div 60) % 10) + 1],
                     ":",
                     DIGITS[((start % 60) \div 10) + 1], DIGITS[((start % 60) % 10) + 1]>>

\* C29: after any sequence of arrow keys selectedField is in 0..3, the wake
\* time has hour 0..23 and minute 0..59 (a step of 10 minutes wraps around
\* midnight), the duration is in [10, 60], endTemp is one of TEMP_OPTIONS (a
\* step clamps at both ends and never wraps) and the start time shown is a
\* valid HH:MM equal to wake time minus duration modulo 24 hours
C29_MenuStateValid ==
    /\ []MenuValid
    /\ [][/\ (selectedField = 1 /\ menuKey' \in {"left", "right"})
               => WakeMinutes' = (WakeMinutes + (IF menuKey' = "right" THEN 10 ELSE 0 - 10)) % 1440
          /\ (selectedField = 3 /\ menuKey' \in {"left", "right"})
               => TempIndex' = Max(1, Min(Len(TEMP_OPTIONS),
                                          TempIndex + (IF menuKey' = "right" THEN 1 ELSE 0 - 1)))]_vars

\* the wake time has been moved back across midnight with the longest
\* duration and the last temperature, which a further Right would leave alone
C29_Witness ==
    /\ menuKey = "left"
    /\ selectedField = 1
    /\ settings.wakeTime = [hour |-> 23, minute |-> 50]
    /\ settings.duration = DURATION_MAX
    /\ settings.endTemp = TEMP_OPTIONS[Len(TEMP_OPTIONS)]
    /\ startTime = <<"2", "2", ":", "5", "0">>

\* C30: Up and Down are inverse moves over the 4 fields: from field i Up
\* selects (i - 1) mod 4 and Down selects (i + 1) mod 4, so Down then Up (or
\* Up then Down) returns to the field selected before
C30_UpDownInverse ==
    /\ menuKey = "up" => selectedField = (prevField - 1) % 4
    /\ menuKey = "down" => selectedField = (prevField + 1) % 4

\* Up has been pressed and the selected field is the one it was
C30_UpLeavesField ==
    /\ menuKey = "up"
    /\ selectedField = prevField
    /\ selectedField # (prevField - 1) % 4

=============================================================================
